---- MODULE Spec2Model ----
(***************************************************************************)
(* Automated internal linking engine of prSeoAstro.                        *)
(*                                                                         *)
(* Strings are sequences of one-character strings.  Offsets stored in      *)
(* records (startIndex, endIndex, position) are the 0-based offsets of the *)
(* TypeScript code; Substring, CharAt and IndexFrom convert to the 1-based *)
(* sequences of TLA+.                                                      *)
(***************************************************************************)
EXTENDS Integers, Sequences, FiniteSets, TLC

VARIABLES
  store,          \* the loaded data: categories, subcategories, synonyms
  html,           \* addInternalLinks: the html argument
  context,        \* addInternalLinks: the page context argument
  config,         \* addInternalLinks: the config argument
  pc,             \* position inside addInternalLinks
  totalWords,     \* local of addInternalLinks
  maxLinks,       \* local of addInternalLinks
  targets,        \* local of addInternalLinks / findLinkInsertions
  paragraphs,     \* local of addInternalLinks (all paragraphs)
  eligible,       \* local eligibleParagraphs, the paragraphs of findLinkInsertions
  insertions,     \* findLinkInsertions: insertions
  usedAnchors,    \* findLinkInsertions: usedAnchors
  linksPerParagraph, \* findLinkInsertions: linksPerParagraph
  targetIdx,      \* findLinkInsertions: position of the for-loop over targets
  result,         \* the LinkingResult returned
  run,            \* 1 for the first pass over a page, 2 for a pass over its own output
  firstRun,       \* what the first pass read and returned, kept for the second pass
  calls,          \* the calls already returned in this build: arguments and result
  lookup          \* getLocalizedField: the arguments of a call and what it returned

vars == << store, html, context, config, pc, totalWords, maxLinks, targets,
           paragraphs, eligible, insertions, usedAnchors, linksPerParagraph,
           targetIdx, result, run, firstRun, calls, lookup >>

\* no call of getLocalizedField
NoLookup == [pc |-> "none"]

(***************************************************************************)
(* Characters and the character classes of the regular expressions.       *)
(***************************************************************************)
UpperChars == {"A","B","C","D","E","F","G","H","I","J","K","L","M",
               "N","O","P","Q","R","S","T","U","V","W","X","Y","Z"}

LowerChars == {"a","b","c","d","e","f","g","h","i","j","k","l","m",
               "n","o","p","q","r","s","t","u","v","w","x","y","z"}

DigitChars == {"0","1","2","3","4","5","6","7","8","9"}

\* \w of a JavaScript regular expression
IsWordChar(c) == c \in UpperChars \cup LowerChars \cup DigitChars \cup {"_"}

\* \s of a JavaScript regular expression (the characters the inputs use)
IsSpace(c) == c \in {" ", "\n", "\t"}

LowerMap ==
  ("A" :> "a") @@ ("B" :> "b") @@ ("C" :> "c") @@ ("D" :> "d") @@ ("E" :> "e") @@
  ("F" :> "f") @@ ("G" :> "g") @@ ("H" :> "h") @@ ("I" :> "i") @@ ("J" :> "j") @@
  ("K" :> "k") @@ ("L" :> "l") @@ ("M" :> "m") @@ ("N" :> "n") @@ ("O" :> "o") @@
  ("P" :> "p") @@ ("Q" :> "q") @@ ("R" :> "r") @@ ("S" :> "s") @@ ("T" :> "t") @@
  ("U" :> "u") @@ ("V" :> "v") @@ ("W" :> "w") @@ ("X" :> "x") @@ ("Y" :> "y") @@
  ("Z" :> "z")

\* String.prototype.toLowerCase, one character
LowerChar(c) == IF c \in UpperChars THEN LowerMap[c] ELSE c

\* String.prototype.toLowerCase
ToLowerCase(s) == [i \in 1..Len(s) |-> LowerChar(s[i])]

(***************************************************************************)
(* JavaScript string primitives.                                           *)
(***************************************************************************)
Min(a, b) == IF a <= b THEN a ELSE b

Max(a, b) == IF a >= b THEN a ELSE b

MinOfSet(S) == CHOOSE x \in S : \A y \in S : x <= y

Clamp(n, len) == Max(0, Min(n, len))

\* s.substring(a, b): both ends clamped to [0, length], swapped when a > b
Substring(s, a, b) ==
  LET ca == Clamp(a, Len(s))
      cb == Clamp(b, Len(s))
  IN  SubSeq(s, Min(ca, cb) + 1, Max(ca, cb))

\* s.substring(a)
SubstringFrom(s, a) == Substring(s, a, Len(s))

\* the character at 0-based offset i, "" outside the string
CharAt(s, i) == IF i >= 0 /\ i < Len(s) THEN s[i + 1] ELSE ""

\* s.startsWith(t) at 0-based offset i, case folded when fold is set
MatchesAt(s, i, t, fold) ==
  /\ i >= 0
  /\ i + Len(t) <= Len(s)
  /\ \A k \in 1..Len(t) :
       IF fold THEN LowerChar(s[i + k]) = LowerChar(t[k]) ELSE s[i + k] = t[k]

\* the least 0-based offset j >= i with s[j] = c, or -1
IndexOfChar(s, c, i) ==
  LET hits == {j \in Max(i, 0)..(Len(s) - 1) : s[j + 1] = c}
  IN  IF hits = {} THEN -1 ELSE MinOfSet(hits)

RECURSIVE Concat(_)
\* parts.join('')
Concat(parts) ==
  IF parts = <<>> THEN <<>> ELSE Head(parts) \o Concat(Tail(parts))

(***************************************************************************)
(* The tag pattern /<[^>]+>/ shared by tag stripping and by split.         *)
(***************************************************************************)
\* 0-based offset one past the match of /<[^>]+>/ starting at i, or -1
TagEndAt(s, i) ==
  IF CharAt(s, i) = "<" /\ CharAt(s, i + 1) # ">" /\ i + 1 < Len(s)
  THEN LET close == IndexOfChar(s, ">", i + 1)
       IN  IF close = -1 THEN -1 ELSE close + 1
  ELSE -1

\* the least offset m >= i where /<[^>]+>/ matches, or -1
NextTagStart(s, i) ==
  LET hits == {m \in Max(i, 0)..(Len(s) - 1) : TagEndAt(s, m) # -1}
  IN  IF hits = {} THEN -1 ELSE MinOfSet(hits)

RECURSIVE SplitFrom(_, _)
SplitFrom(s, i) ==
  LET m == NextTagStart(s, i)
  IN  IF m = -1
      THEN << Substring(s, i, Len(s)) >>
      ELSE << Substring(s, i, m), Substring(s, m, TagEndAt(s, m)) >>
           \o SplitFrom(s, TagEndAt(s, m))

\* s.split(/(<[^>]+>)/): text, tag, text, ..., text (texts may be empty)
SplitTags(s) == SplitFrom(s, 0)

\* s.replace(/<[^>]+>/g, ' ')
StripTags(s) ==
  LET parts == SplitTags(s)
  IN  Concat([k \in 1..Len(parts) |-> IF k % 2 = 0 THEN <<" ">> ELSE parts[k]])

\* text.trim().split(/\s+/).filter(w => w.length > 0).length
countWords(text) ==
  Cardinality({i \in 1..Len(text) :
                 /\ ~IsSpace(text[i])
                 /\ (i = 1 \/ IsSpace(text[i - 1]))})

(***************************************************************************)
(* htmlParser: paragraphs and their safe text nodes.                       *)
(***************************************************************************)
EXCLUDED_TAGS ==
  { <<"a">>, <<"c","o","d","e">>, <<"p","r","e">>, <<"k","b","d">>,
    <<"s","a","m","p">>, <<"s","c","r","i","p","t">>, <<"s","t","y","l","e">>,
    <<"h","1">>, <<"h","2">>, <<"h","3">>, <<"h","4">>, <<"h","5">>, <<"h","6">>,
    <<"b","u","t","t","o","n">>, <<"n","a","v">>, <<"h","e","a","d","e","r">>,
    <<"f","o","o","t","e","r">> }

\* offset one past the match of <name(\s[^>]*)?> starting at i, or -1
OpenTagEndAt(s, i, name, fold) ==
  IF CharAt(s, i) = "<" /\ MatchesAt(s, i + 1, name, fold)
  THEN LET j == i + 1 + Len(name)
       IN  IF CharAt(s, j) = ">" THEN j + 1
           ELSE IF IsSpace(CharAt(s, j))
                THEN LET close == IndexOfChar(s, ">", j + 1)
                     IN  IF close = -1 THEN -1 ELSE close + 1
                ELSE -1
  ELSE -1

CloseTag(name) == <<"<", "/">> \o name \o <<">">>

\* the least offset j >= i where t occurs in s, or -1 (String.prototype.indexOf)
IndexOf(s, t, i, fold) ==
  LET hits == {j \in Max(i, 0)..(Len(s) - Len(t)) : MatchesAt(s, j, t, fold)}
  IN  IF hits = {} THEN -1 ELSE MinOfSet(hits)

\* offset one past the match of /<name(\s[^>]*)?>[\s\S]*?<\/name>/i starting
\* at i, or -1
ElementEndAt(s, i, name) ==
  LET open == OpenTagEndAt(s, i, name, TRUE)
  IN  IF open = -1 THEN -1
      ELSE LET close == IndexOf(s, CloseTag(name), open, TRUE)
           IN  IF close = -1 THEN -1 ELSE close + Len(name) + 3

\* the least offset m >= i where the element pattern of name matches, or -1
NextElementStart(s, i, name) ==
  LET hits == {m \in Max(i, 0)..(Len(s) - 1) : ElementEndAt(s, m, name) # -1}
  IN  IF hits = {} THEN -1 ELSE MinOfSet(hits)

RECURSIVE ElementMatches(_, _, _)
\* the successive matches of a global (g) element pattern from offset i on
ElementMatches(s, i, name) ==
  LET m == NextElementStart(s, i, name)
  IN  IF m = -1 THEN <<>>
      ELSE << [start |-> m, end |-> ElementEndAt(s, m, name)] >>
           \o ElementMatches(s, ElementEndAt(s, m, name), name)

\* part.match(/^<\/?(\w+)/): the tag name in lower case, <<>> when no match
RECURSIVE WordRun(_, _)
WordRun(s, i) ==
  IF IsWordChar(CharAt(s, i)) THEN <<CharAt(s, i)>> \o WordRun(s, i + 1) ELSE <<>>

TagName(part) ==
  ToLowerCase(WordRun(part, IF CharAt(part, 1) = "/" THEN 2 ELSE 1))

StartsWith(s, t) == MatchesAt(s, 0, t, FALSE)

EndsWith(s, t) == MatchesAt(s, Len(s) - Len(t), t, FALSE)

\* part.trim().length > 0
HasNonSpace(s) == \E i \in 1..Len(s) : ~IsSpace(s[i])

\* a tag stack that also takes self-closing tags
TagStackPushingSelfClosing(tagStack, part) ==
  LET tagName == TagName(part)
  IN  IF tagName = <<>> THEN tagStack
      ELSE IF StartsWith(part, <<"<", "/">>)
           THEN IF tagStack # <<>> /\ tagStack[Len(tagStack)] = tagName
                THEN SubSeq(tagStack, 1, Len(tagStack) - 1)
                ELSE tagStack
           ELSE Append(tagStack, tagName)

\* the tag stack after the tag token `part`
TagStackAfter(tagStack, part) ==
  LET tagName == TagName(part)
  IN  IF tagName = <<>> THEN tagStack
      ELSE IF StartsWith(part, <<"<", "/">>)
           THEN IF tagStack # <<>> /\ tagStack[Len(tagStack)] = tagName
                THEN SubSeq(tagStack, 1, Len(tagStack) - 1)
                ELSE tagStack
           ELSE IF ~EndsWith(part, <<"/", ">">>)
                THEN Append(tagStack, tagName)
                ELSE tagStack

InsideExcluded(tagStack) == \E k \in 1..Len(tagStack) : tagStack[k] \in EXCLUDED_TAGS

\* paragraphHtml.replace(/^<p(\s[^>]*)?>/, '').replace(/<\/p>$/, '')
ParagraphContent(paragraphHtml) ==
  LET open == OpenTagEndAt(paragraphHtml, 0, <<"p">>, FALSE)
      s1   == IF open = -1 THEN paragraphHtml ELSE SubstringFrom(paragraphHtml, open)
  IN  IF EndsWith(s1, CloseTag(<<"p">>)) THEN Substring(s1, 0, Len(s1) - 4) ELSE s1

RECURSIVE TextNodesLoop(_, _, _, _, _, _, _, _)
\* the for-loop over parts: k is the next part, currentPos and tagStack and
\* insideExcludedTag are the loop's locals
TextNodesLoop(parts, k, content, base, paragraphIndex, currentPos, tagStack, inside) ==
  IF k > Len(parts) THEN <<>>
  ELSE
    LET part == parts[k]
    IN  IF StartsWith(part, <<"<">>)
        THEN LET st  == TagStackAfter(tagStack, part)
                 ins == IF TagName(part) = <<>> THEN inside ELSE InsideExcluded(st)
             IN  TextNodesLoop(parts, k + 1, content, base, paragraphIndex,
                               currentPos + Len(part), st, ins)
        ELSE LET textStartInContent == IndexOf(content, part, currentPos, FALSE)
                 emit == /\ Len(part) > 0
                         /\ ~inside
                         /\ HasNonSpace(part)
                         /\ textStartInContent # -1
                 node == [text           |-> part,
                          startIndex     |-> base + textStartInContent,
                          endIndex       |-> base + textStartInContent + Len(part),
                          paragraphIndex |-> paragraphIndex]
             IN  (IF emit THEN <<node>> ELSE <<>>)
                 \o TextNodesLoop(parts, k + 1, content, base, paragraphIndex,
                                  currentPos + Len(part), tagStack, inside)

extractTextNodesFromParagraph(paragraphHtml, paragraphStartIndex, paragraphIndex) ==
  LET content       == ParagraphContent(paragraphHtml)
      openTagLength == Len(paragraphHtml) - Len(content) - 4
  IN  TextNodesLoop(SplitTags(content), 1, content,
                    paragraphStartIndex + openTagLength, paragraphIndex,
                    0, <<>>, FALSE)

\* the matches of pTagRegex = /<p(\s[^>]*)?>[\s\S]*?<\/p>/gi in the document
extractParagraphs(doc) ==
  LET ms == ElementMatches(doc, 0, <<"p">>)
  IN  [k \in 1..Len(ms) |->
         LET fullHtml == Substring(doc, ms[k].start, ms[k].end)
         IN  [fullHtml   |-> fullHtml,
              textNodes  |-> extractTextNodesFromParagraph(fullHtml, ms[k].start, k - 1),
              startIndex |-> ms[k].start,
              endIndex   |-> ms[k].end,
              index      |-> k - 1]]

RECURSIVE SortByStart(_)
\* regions.sort((a, b) => a.start - b.start); no two matches start at the
\* same offset
SortByStart(regions) ==
  IF regions = {} THEN <<>>
  ELSE LET first == CHOOSE r \in regions : \A q \in regions : r.start <= q.start
       IN  <<first>> \o SortByStart(regions \ {first})

RECURSIVE MergeRegions(_, _)
\* the loop that merges overlapping and adjacent regions
MergeRegions(sorted, merged) ==
  IF sorted = <<>> THEN merged
  ELSE LET region == Head(sorted)
       IN  IF merged = <<>> \/ merged[Len(merged)].end < region.start
           THEN MergeRegions(Tail(sorted), Append(merged, region))
           ELSE MergeRegions(Tail(sorted),
                  [merged EXCEPT ![Len(merged)].end = Max(@, region.end)])

\* the merged regions the element patterns of the excluded tags match
findExcludedRegions(doc) ==
  MergeRegions(
    SortByStart(UNION { {ms[k] : k \in 1..Len(ms)} :
                        ms \in { ElementMatches(doc, 0, tag) : tag \in EXCLUDED_TAGS } }),
    <<>>)

\* regions.some(r => position >= r.start && position < r.end)
isInExcludedRegion(position, regions) ==
  \E k \in 1..Len(regions) :
    position >= regions[k].start /\ position < regions[k].end

(***************************************************************************)
(* db.ts: the relational queries the resolver uses.  An absent entity      *)
(* (undefined) is the empty sequence, a found one a one-element sequence.  *)
(***************************************************************************)
Range(f) == {f[i] : i \in DOMAIN f}

getAllCategories == store.categories

getAllSubcategories == store.subcategories

getCategoryById(id) == SelectSeq(store.categories, LAMBDA cat : cat.id = id)

getSubcategoryById(id) == SelectSeq(store.subcategories, LAMBDA sub : sub.id = id)

\* a || b on possibly-undefined entities
OrElse(a, b) == IF a # <<>> THEN a ELSE b

getChildSubcategories(subcategory) ==
  SelectSeq(store.subcategories, LAMBDA sub : sub.parentCategoryId = subcategory.id)

Ids(entities) == [k \in 1..Len(entities) |-> entities[k].id]

\* path.join('/')
RECURSIVE JoinSlash(_)
JoinSlash(path) ==
  IF path = <<>> THEN <<>>
  ELSE IF Len(path) = 1 THEN path[1]
  ELSE path[1] \o <<"/">> \o JoinSlash(Tail(path))

RECURSIVE FullPathLeafFirst(_, _)
\* a walk that appends each parent slug instead of putting it in front
FullPathLeafFirst(current, path) ==
  IF current.parentCategoryId = "" THEN path
  ELSE LET parent == getSubcategoryById(current.parentCategoryId)
       IN  IF parent # <<>>
           THEN FullPathLeafFirst(parent[1], path \o <<parent[1].slug>>)
           ELSE LET category == getCategoryById(current.parentCategoryId)
                IN  IF category # <<>> THEN path \o <<category[1].slug>> ELSE path

RECURSIVE FullPathLoop(_, _)
\* the while-loop of getFullPath: current is the entity reached, path the
\* segments collected so far
FullPathLoop(current, path) ==
  IF current.parentCategoryId = "" THEN path
  ELSE LET parent == getSubcategoryById(current.parentCategoryId)
       IN  IF parent # <<>>
           THEN FullPathLoop(parent[1], <<parent[1].slug>> \o path)
           ELSE LET category == getCategoryById(current.parentCategoryId)
                IN  IF category # <<>> THEN <<category[1].slug>> \o path ELSE path

getFullPath(subcategory) == JoinSlash(FullPathLoop(subcategory, <<subcategory.slug>>))

\* synonyms[entityId] || []
getSynonymsForEntity(entityId) ==
  IF entityId \in DOMAIN store.synonyms THEN store.synonyms[entityId] ELSE <<>>

(***************************************************************************)
(* targetResolver.ts                                                       *)
(***************************************************************************)
\* 'subcategoryIds' in entity
IsCategory(entity) == "subcategoryIds" \in DOMAIN entity

ChildIdsOf(entity) ==
  IF IsCategory(entity) THEN entity.subcategoryIds
  ELSE Ids(getChildSubcategories(entity))

RECURSIVE getAllDescendants(_)
getAllDescendants(entityId) ==
  LET entity == OrElse(getCategoryById(entityId), getSubcategoryById(entityId))
  IN  IF entity = <<>> THEN {}
      ELSE LET childIds == ChildIdsOf(entity[1])
           IN  Range(childIds)
               \cup UNION { getAllDescendants(childId) : childId \in Range(childIds) }

RECURSIVE AncestorsLoopResolvedOnly(_, _)
\* a walk that records an id only once it has resolved it to a subcategory
AncestorsLoopResolvedOnly(currentId, ancestors) ==
  IF currentId = "" THEN ancestors
  ELSE LET parent == getSubcategoryById(currentId)
       IN  IF parent # <<>>
           THEN AncestorsLoopResolvedOnly(parent[1].parentCategoryId,
                                          ancestors \cup {currentId})
           ELSE ancestors

RECURSIVE AncestorsLoop(_, _)
\* the while-loop of getAllAncestors
AncestorsLoop(currentId, ancestors) ==
  IF currentId = "" THEN ancestors
  ELSE LET parent == getSubcategoryById(currentId)
       IN  IF parent # <<>>
           THEN AncestorsLoop(parent[1].parentCategoryId, ancestors \cup {currentId})
           ELSE ancestors \cup {currentId}

getAllAncestors(subcategory) == AncestorsLoop(subcategory.parentCategoryId, {})

\* the sibling ids as lines 122-131 and 229-238 compute them
SiblingIds(subcategory) ==
  LET parent == OrElse(getSubcategoryById(subcategory.parentCategoryId),
                       getCategoryById(subcategory.parentCategoryId))
  IN  IF parent = <<>> THEN {} ELSE Range(ChildIdsOf(parent[1]))

getExcludedEntityIds(ctx, cfg) ==
  LET self == IF ~cfg.allowSelfLink THEN {ctx.id} ELSE {}
  IN  IF ~cfg.relationPolicy.excludeHierarchyByDefault THEN self
      ELSE IF ctx.type = "category"
      THEN self \cup Range(ctx.entity.subcategoryIds)
                \cup getAllDescendants(ctx.entity.id)
      ELSE self \cup {ctx.entity.parentCategoryId}
                \cup Range(Ids(getChildSubcategories(ctx.entity)))
                \cup getAllDescendants(ctx.entity.id)
                \cup getAllAncestors(ctx.entity)
                \cup (SiblingIds(ctx.entity) \ {ctx.id})

getRelation(ctx, target) ==
  IF ctx.type = "category"
  THEN IF "parentCategoryId" \in DOMAIN target
          /\ target.parentCategoryId = ctx.entity.id
       THEN "child"
       ELSE IF target.id \in getAllDescendants(ctx.entity.id)
       THEN "descendant"
       ELSE "relatedCategoryIds"
  ELSE IF target.id = ctx.entity.parentCategoryId THEN "parent"
       ELSE IF target.id \in Range(Ids(getChildSubcategories(ctx.entity))) THEN "child"
       ELSE IF target.id \in getAllAncestors(ctx.entity) THEN "ancestor"
       ELSE IF target.id \in getAllDescendants(ctx.entity.id) THEN "descendant"
       ELSE IF target.id \in Range(ctx.entity.relatedCategoryIds) THEN "relatedCategoryIds"
       ELSE IF target.id \in SiblingIds(ctx.entity) /\ target.id # ctx.id THEN "sibling"
       ELSE "relatedCategoryIds"

\* a filter that lets the inclusion list decide first
isRelationAllowedIncludeFirst(relation, cfg) ==
  IF cfg.relationPolicy.includeRelations # {}
  THEN relation \in cfg.relationPolicy.includeRelations
  ELSE relation \notin cfg.relationPolicy.excludeRelations

isRelationAllowed(relation, cfg) ==
  IF relation \in cfg.relationPolicy.excludeRelations THEN FALSE
  ELSE IF cfg.relationPolicy.includeRelations # {}
       THEN relation \in cfg.relationPolicy.includeRelations
       ELSE TRUE

\* an anchor list that keeps repeated strings
KeepDuplicates(anchors) == anchors

RECURSIVE Dedupe(_)
\* Array.from(new Set(anchors)): first occurrences, in order
Dedupe(anchors) ==
  IF anchors = <<>> THEN <<>>
  ELSE LET rest == Dedupe(SubSeq(anchors, 1, Len(anchors) - 1))
           last == anchors[Len(anchors)]
       IN  IF last \in Range(rest) THEN rest ELSE Append(rest, last)

getAnchorsForEntity(entity, cfg) ==
  LET fromTitle == IF cfg.anchorPolicy.source \in {"title", "both"}
                   THEN <<entity.title>> ELSE <<>>
      fromFile  == IF cfg.anchorPolicy.source \in {"synonyms", "both"}
                      /\ cfg.anchorPolicy.synonymsFile # ""
                   THEN getSynonymsForEntity(entity.id) ELSE <<>>
      unique    == Dedupe(fromTitle \o fromFile)
      limit     == cfg.anchorPolicy.maxAnchorsPerTarget
  IN  \* unique.slice(0, limit): a negative limit counts from the end
      SubSeq(unique, 1, IF limit < 0 THEN Max(Len(unique) + limit, 0)
                        ELSE Min(Len(unique), limit))

\* a priority whose bonus for subcategories is as large as the sibling score
calculatePriorityLargeBonus(relation, type, cfg) ==
  (IF relation = "relatedCategoryIds" THEN 100
   ELSE IF relation = "sibling" THEN 50
   ELSE 10)
  + (IF cfg.targetPolicy.preferSubcategoryOverCategory /\ type = "subcategory"
     THEN 50 ELSE 0)

calculatePriority(relation, type, cfg) ==
  (IF relation = "relatedCategoryIds" THEN 100
   ELSE IF relation = "sibling" THEN 50
   ELSE 10)
  + (IF cfg.targetPolicy.preferSubcategoryOverCategory /\ type = "subcategory"
     THEN 20 ELSE 0)

\* the LinkTarget for an entity, <<>> for null
createLinkTarget(entity, type, relation, cfg) ==
  LET url == IF type = "category"
             THEN <<"/">> \o entity.slug \o <<"/">>
             ELSE <<"/">> \o getFullPath(entity) \o <<"/">>
      anchors == getAnchorsForEntity(entity, cfg)
  IN  IF anchors = <<>> THEN <<>>
      ELSE << [id       |-> entity.id,
               url      |-> url,
               title    |-> entity.title,
               anchors  |-> anchors,
               relation |-> relation,
               priority |-> calculatePriority(relation, type, cfg)] >>

RECURSIVE InsertBeforeEqual(_, _)
\* a sort that places t before the elements of its own priority
InsertBeforeEqual(sorted, t) ==
  IF sorted = <<>> THEN <<t>>
  ELSE IF Head(sorted).priority > t.priority
       THEN <<Head(sorted)>> \o InsertBeforeEqual(Tail(sorted), t)
       ELSE <<t>> \o sorted

RECURSIVE InsertByPriority(_, _)
\* t placed after every element of priority >= its own
InsertByPriority(sorted, t) ==
  IF sorted = <<>> THEN <<t>>
  ELSE IF Head(sorted).priority >= t.priority
       THEN <<Head(sorted)>> \o InsertByPriority(Tail(sorted), t)
       ELSE <<t>> \o sorted

RECURSIVE SortByPriority(_)
\* targets.sort((a, b) => b.priority - a.priority), a stable sort
SortByPriority(ts) ==
  IF ts = <<>> THEN <<>>
  ELSE InsertByPriority(SortByPriority(SubSeq(ts, 1, Len(ts) - 1)), ts[Len(ts)])

RECURSIVE CollectTargets(_, _, _, _, _)
\* one of the two for-loops of getEligibleTargets over `entities`
CollectTargets(entities, type, ctx, cfg, excludedIds) ==
  IF entities = <<>> THEN <<>>
  ELSE LET entity   == Head(entities)
           relation == getRelation(ctx, entity)
           rest     == CollectTargets(Tail(entities), type, ctx, cfg, excludedIds)
       IN  IF entity.id \in excludedIds THEN rest
           ELSE IF entity.id \in cfg.targetPolicy.disallowTargets THEN rest
           ELSE IF ~isRelationAllowed(relation, cfg) THEN rest
           ELSE createLinkTarget(entity, type, relation, cfg) \o rest

getEligibleTargets(ctx, cfg) ==
  LET excludedIds == getExcludedEntityIds(ctx, cfg)
  IN  SortByPriority(
        CollectTargets(getAllCategories, "category", ctx, cfg, excludedIds)
        \o CollectTargets(getAllSubcategories, "subcategory", ctx, cfg, excludedIds))

(***************************************************************************)
(* htmlParser: the rewriter.                                               *)
(***************************************************************************)
\* an escape that leaves the ampersand as it is
EscapeCharKeepingAmpersand(c) ==
  IF c = "<" THEN <<"&","l","t",";">>
  ELSE IF c = ">" THEN <<"&","g","t",";">>
  ELSE IF c = "\"" THEN <<"&","q","u","o","t",";">>
  ELSE IF c = "'" THEN <<"&","#","0","3","9",";">>
  ELSE <<c>>

EscapeChar(c) ==
  IF c = "&" THEN <<"&","a","m","p",";">>
  ELSE IF c = "<" THEN <<"&","l","t",";">>
  ELSE IF c = ">" THEN <<"&","g","t",";">>
  ELSE IF c = "\"" THEN <<"&","q","u","o","t",";">>
  ELSE IF c = "'" THEN <<"&","#","0","3","9",";">>
  ELSE <<c>>

escapeHtml(text) == Concat([i \in 1..Len(text) |-> EscapeChar(text[i])])

\* `<a href="${escapeHtml(href)}">${escapeHtml(text)}</a>`
LinkMarkup(insertion) ==
  <<"<","a"," ","h","r","e","f","=","\"">> \o escapeHtml(insertion.href)
  \o <<"\"",">">> \o escapeHtml(insertion.text) \o <<"<","/","a",">">>

RECURSIVE InsertByPosition(_, _)
\* x placed after every element of position >= its own
InsertByPosition(sorted, x) ==
  IF sorted = <<>> THEN <<x>>
  ELSE IF Head(sorted).position >= x.position
       THEN <<Head(sorted)>> \o InsertByPosition(Tail(sorted), x)
       ELSE <<x>> \o sorted

\* a rewriter that splices in the order of the list
KeepListOrder(ins) == ins

RECURSIVE SortByPositionDesc(_)
\* [...insertions].sort((a, b) => b.position - a.position), a stable sort
SortByPositionDesc(ins) ==
  IF ins = <<>> THEN <<>>
  ELSE InsertByPosition(SortByPositionDesc(SubSeq(ins, 1, Len(ins) - 1)), ins[Len(ins)])

RECURSIVE SpliceAll(_, _)
\* the for-loop of applyLinkInsertions over the sorted insertions
SpliceAll(res, sorted) ==
  IF sorted = <<>> THEN res
  ELSE LET insertion == Head(sorted)
           before == Substring(res, 0, insertion.position)
           after  == SubstringFrom(res, insertion.position + insertion.length)
       IN  SpliceAll(before \o LinkMarkup(insertion) \o after, Tail(sorted))

applyLinkInsertions(doc, ins) == SpliceAll(doc, SortByPositionDesc(ins))

(***************************************************************************)
(* index.ts: the placement engine.                                         *)
(***************************************************************************)
\* the value standing for NaN (0 / 0) in maxLinks
NaN == -1000

\* Math.floor(a / b) for a >= 0 and b # 0
FloorDiv(a, b) ==
  IF b > 0 THEN a \div b ELSE 0 - ((a + (0 - b) - 1) \div (0 - b))

\* the cap of a build that forgets the word-based limit
calculateMaxLinksPageOnly(words, cfg) == Max(0, cfg.maxLinksPerPage)

\* linksPerWords is a set: {} for null, {n} for the number n
calculateMaxLinks(words, cfg) ==
  LET max == cfg.maxLinksPerPage
  IN  IF cfg.linksPerWords = {} THEN Max(0, max)
      ELSE LET per == CHOOSE n \in cfg.linksPerWords : TRUE
           IN  IF per = 0
               THEN IF words = 0 THEN NaN ELSE Max(0, max)
               ELSE Max(0, Min(max, FloorDiv(words, per)))

\* a build without the minimum-word check
NeverBelowThreshold(words, cfg) == FALSE

\* totalWords < config.minWordsBeforeLinking
BelowThreshold(words, cfg) == words < cfg.minWordsBeforeLinking

\* insertions.length >= maxLinks
ReachedMax(count, max) == max # NaN /\ count >= max

ParagraphWords(p) == countWords(StripTags(p.fullHtml))

filterParagraphs(ps, cfg) ==
  LET skipped == IF cfg.placementPolicy.skipFirstParagraph /\ Len(ps) > 1
                 THEN Tail(ps) ELSE ps
  IN  IF cfg.placementPolicy.minParagraphWords > 0
      THEN SelectSeq(skipped,
             LAMBDA p : ParagraphWords(p) >= cfg.placementPolicy.minParagraphWords)
      ELSE skipped

\* \b at offset k of text
WordBoundaryAt(text, k) == IsWordChar(CharAt(text, k - 1)) # IsWordChar(CharAt(text, k))

\* pattern.exec(text) for the pattern of buildAnchorPattern: offset of the
\* leftmost whole-phrase match, or -1
AnchorMatchIndex(text, anchor, cfg) ==
  LET hits == {k \in 0..(Len(text) - Len(anchor)) :
                 /\ WordBoundaryAt(text, k)
                 /\ MatchesAt(text, k, anchor, ~cfg.anchorPolicy.caseSensitive)
                 /\ WordBoundaryAt(text, k + Len(anchor))}
  IN  IF hits = {} THEN -1 ELSE MinOfSet(hits)

\* linksPerParagraph.get(k) || 0
MapGet(map, k) == IF k \in DOMAIN map THEN map[k] ELSE 0

MapSet(map, k, v) == [x \in DOMAIN map \cup {k} |-> IF x = k THEN v ELSE map[x]]

RECURSIVE FirstInNodes(_, _, _, _)
\* the inner for-loop of findFirstOccurrence over paragraph.textNodes
FirstInNodes(textNodes, anchor, url, cfg) ==
  IF textNodes = <<>> THEN <<>>
  ELSE LET textNode   == Head(textNodes)
           matchStart == AnchorMatchIndex(textNode.text, anchor, cfg)
       IN  IF matchStart # -1
           THEN << [position |-> textNode.startIndex + matchStart,
                    length   |-> Len(anchor),
                    href     |-> url,
                    text     |-> Substring(textNode.text, matchStart,
                                           matchStart + Len(anchor))] >>
           ELSE FirstInNodes(Tail(textNodes), anchor, url, cfg)

RECURSIVE findFirstOccurrence(_, _, _, _, _)
\* the LinkInsertion found, <<>> for null
findFirstOccurrence(ps, anchor, url, cfg, perParagraph) ==
  IF ps = <<>> THEN <<>>
  ELSE LET paragraph == Head(ps)
       IN  IF cfg.placementPolicy.oneLinkPerParagraph
              /\ MapGet(perParagraph, paragraph.index) >= 1
           THEN findFirstOccurrence(Tail(ps), anchor, url, cfg, perParagraph)
           ELSE LET found == FirstInNodes(paragraph.textNodes, anchor, url, cfg)
                IN  IF found # <<>> THEN found
                    ELSE findFirstOccurrence(Tail(ps), anchor, url, cfg, perParagraph)

RECURSIVE InsertByLength(_, _)
\* a placed after every element at least as long
InsertByLength(sorted, a) ==
  IF sorted = <<>> THEN <<a>>
  ELSE IF Len(Head(sorted)) >= Len(a)
       THEN <<Head(sorted)>> \o InsertByLength(Tail(sorted), a)
       ELSE <<a>> \o sorted

\* a build that tries the anchors in the order the resolver lists them
SortAnchorsAsListed(anchors) == anchors

RECURSIVE SortAnchors(_)
\* [...target.anchors].sort((a, b) => b.length - a.length), a stable sort
SortAnchors(anchors) ==
  IF anchors = <<>> THEN <<>>
  ELSE InsertByLength(SortAnchors(SubSeq(anchors, 1, Len(anchors) - 1)),
                      anchors[Len(anchors)])

\* an anchor key that ignores the case policy
AnchorKeyVerbatim(anchor, cfg) == anchor

\* config.anchorPolicy.caseSensitive ? anchor : anchor.toLowerCase()
AnchorKey(anchor, cfg) ==
  IF cfg.anchorPolicy.caseSensitive THEN anchor ELSE ToLowerCase(anchor)

\* paragraphs.findIndex(p => position >= p.startIndex && position < p.endIndex)
FindParagraphIndex(ps, position) ==
  LET hits == {k \in 1..Len(ps) :
                 position >= ps[k].startIndex /\ position < ps[k].endIndex}
  IN  IF hits = {} THEN -1 ELSE MinOfSet(hits) - 1

RECURSIVE TryAnchors(_, _, _, _, _, _)
\* the for-loop over target.anchors; st holds insertions, usedAnchors and
\* linksPerParagraph
TryAnchors(anchors, url, ps, max, cfg, st) ==
  IF anchors = <<>> THEN st
  ELSE IF ReachedMax(Len(st.insertions), max) THEN st
  ELSE LET anchor    == Head(anchors)
           anchorKey == AnchorKey(anchor, cfg)
       IN  IF cfg.dedupeAnchors /\ anchorKey \in st.usedAnchors
           THEN TryAnchors(Tail(anchors), url, ps, max, cfg, st)
           ELSE LET found == findFirstOccurrence(ps, anchor, url, cfg,
                                                 st.linksPerParagraph)
                IN  IF found = <<>>
                    THEN TryAnchors(Tail(anchors), url, ps, max, cfg, st)
                    ELSE LET paraIndex == FindParagraphIndex(ps, found[1].position)
                         IN  [insertions  |-> Append(st.insertions, found[1]),
                              usedAnchors |-> st.usedAnchors \cup {anchorKey},
                              linksPerParagraph |->
                                IF paraIndex # -1
                                THEN MapSet(st.linksPerParagraph, paraIndex,
                                            MapGet(st.linksPerParagraph, paraIndex) + 1)
                                ELSE st.linksPerParagraph]

\* targets.map(target => ({...target, anchors: sorted copy}))
targetsWithSortedAnchors(ts) ==
  [k \in 1..Len(ts) |-> [ts[k] EXCEPT !.anchors = SortAnchors(@)]]

\* Array.from(new Set(insertions.map(i => i.href)))
TargetsUsed(ins) == Dedupe([k \in 1..Len(ins) |-> ins[k].href])

\* a zero-insertion result that hands back no HTML
UnchangedEmpty(doc) == [html |-> <<>>, linksInserted |-> 0, targetsUsed |-> <<>>]

Unchanged(doc) == [html |-> doc, linksInserted |-> 0, targetsUsed |-> <<>>]

(***************************************************************************)
(* The loaded data (categories.json, subcategories.json, anchors.json):    *)
(* a three-level hierarchy with cross references, after the example of     *)
(* the documentation (crm-software > crm-for-startups > free-crm-...).     *)
(***************************************************************************)
Category(id, slug, title, subcategoryIds) ==
  [id |-> id, slug |-> slug, title |-> title, subcategoryIds |-> subcategoryIds]

Subcategory(id, slug, title, parentCategoryId, relatedCategoryIds) ==
  [id |-> id, slug |-> slug, title |-> title,
   parentCategoryId |-> parentCategoryId, relatedCategoryIds |-> relatedCategoryIds]

T_CRM == <<"C","R","M">>

T_Email == <<"E","m","a","i","l">>

T_PM == <<"P","M">>

T_CRMForStartups == <<"C","R","M"," ","f","o","r"," ","S","t","a","r","t","u","p","s">>

T_SalesCRM == <<"S","a","l","e","s"," ","C","R","M">>

T_FreeCRM == <<"F","r","e","e"," ","C","R","M">>

T_PMForTeams == <<"P","M"," ","f","o","r"," ","T","e","a","m","s">>

T_PMTools == <<"P","M"," ","t","o","o","l","s">>

SiteStore ==
  [categories |->
     << Category("crm-software", <<"c","r","m">>, T_CRM,
                 <<"crm-for-startups", "crm-for-sales">>),
        Category("email-marketing", <<"e","m","a","i","l">>, T_Email, <<>>),
        Category("project-management", <<"p","m">>, T_PM, <<"pm-for-teams">>) >>,
   subcategories |->
     << Subcategory("crm-for-startups", <<"s","t","a","r","t","u","p","s">>, T_CRMForStartups,
                    "crm-software", <<"project-management">>),
        Subcategory("crm-for-sales", <<"s","a","l","e","s">>, T_SalesCRM, "crm-software", <<>>),
        Subcategory("free-crm-for-startups", <<"f","r","e","e">>, T_FreeCRM,
                    "crm-for-startups", <<>>),
        Subcategory("pm-for-teams", <<"t","e","a","m","s">>, T_PMForTeams,
                    "project-management", <<"crm-software">>) >>,
   synonyms |->
     ("project-management" :> <<T_PMTools>>) @@ ("crm-for-sales" :> <<T_CRM>>)]

\* three root categories and nothing else
FlatStore ==
  [categories |->
     << Category("crm-software", <<"c","r","m">>, T_CRM, <<>>),
        Category("email-marketing", <<"e","m","a","i","l">>, T_Email, <<>>),
        Category("project-management", <<"p","m">>, T_PM, <<>>) >>,
   subcategories |-> <<>>,
   synonyms |-> <<>>]

\* the PageContext the page template builds for an entity
PageOf(type, entity) ==
  [type |-> type, entity |-> entity, id |-> entity.id, slug |-> entity.slug]

Pages(st) ==
  {PageOf("category", st.categories[k]) : k \in 1..Len(st.categories)}
  \cup {PageOf("subcategory", st.subcategories[k]) : k \in 1..Len(st.subcategories)}

(***************************************************************************)
(* config.ts                                                               *)
(***************************************************************************)
defaultConfig ==
  [enabled |-> TRUE,
   maxLinksPerPage |-> 5,
   linksPerWords |-> {100},
   minWordsBeforeLinking |-> 50,
   dedupeAnchors |-> TRUE,
   allowSelfLink |-> FALSE,
   relationPolicy |->
     [excludeHierarchyByDefault |-> FALSE,
      includeRelations |-> {},
      excludeRelations |-> {"parent", "ancestor"}],
   anchorPolicy |->
     [source |-> "both",
      synonymsFile |-> "src/data/anchors.json",
      maxAnchorsPerTarget |-> 5,
      match |-> "phrase",
      caseSensitive |-> FALSE],
   targetPolicy |->
     [preferSubcategoryOverCategory |-> TRUE,
      disallowTargets |-> {}],
   placementPolicy |->
     [oneLinkPerParagraph |-> FALSE,
      skipFirstParagraph |-> FALSE,
      minParagraphWords |-> 10]]

(***************************************************************************)
(* addInternalLinks as a state machine.  One call runs                     *)
(*   start -> resolve -> extract -> place (once per target) -> apply ->    *)
(*   done, every early return going straight to done.                      *)
(***************************************************************************)
\* lines 32-54: the enabled switch, the word count, the threshold, the cap
Begin ==
  /\ pc = "start"
  /\ IF ~config.enabled
     THEN /\ result' = Unchanged(html)
          /\ pc' = "done"
          /\ UNCHANGED << totalWords, maxLinks >>
     ELSE LET words == countWords(StripTags(html))
          IN  /\ totalWords' = words
              /\ IF BelowThreshold(words, config)
                 THEN /\ result' = Unchanged(html)
                      /\ pc' = "done"
                      /\ UNCHANGED maxLinks
                 ELSE /\ maxLinks' = calculateMaxLinks(words, config)
                      /\ pc' = "resolve"
                      /\ UNCHANGED result
  /\ UNCHANGED << lookup, store, html, context, config, targets, paragraphs, eligible,
                  insertions, usedAnchors, linksPerParagraph, targetIdx, run, firstRun, calls >>

\* lines 56-64: the eligible targets
Resolve ==
  /\ pc = "resolve"
  /\ LET ts == getEligibleTargets(context, config)
     IN  /\ targets' = ts
         /\ IF Len(ts) = 0
            THEN result' = Unchanged(html) /\ pc' = "done"
            ELSE pc' = "extract" /\ UNCHANGED result
  /\ UNCHANGED << lookup, store, html, context, config, totalWords, maxLinks, paragraphs,
                  eligible, insertions, usedAnchors, linksPerParagraph, targetIdx,
                  run, firstRun, calls >>

\* a findLinkInsertions whose usedAnchors is created once for the module and
\* not once per call
ExtractKeepingUsedAnchors ==
  /\ pc = "extract"
  /\ LET ps == extractParagraphs(html)
     IN  /\ paragraphs' = ps
         /\ IF Len(ps) = 0
            THEN /\ result' = Unchanged(html)
                 /\ pc' = "done"
                 /\ UNCHANGED eligible
            ELSE /\ eligible' = filterParagraphs(ps, config)
                 /\ pc' = "place"
                 /\ UNCHANGED result
  /\ insertions' = <<>>
  /\ linksPerParagraph' = <<>>
  /\ targetIdx' = 1
  /\ UNCHANGED << lookup, store, html, context, config, totalWords, maxLinks, targets, run,
                  firstRun, calls, usedAnchors >>

\* lines 66-77 and 144-153: the paragraphs, the placement filter, the locals
\* of findLinkInsertions
Extract ==
  /\ pc = "extract"
  /\ LET ps == extractParagraphs(html)
     IN  /\ paragraphs' = ps
         /\ IF Len(ps) = 0
            THEN /\ result' = Unchanged(html)
                 /\ pc' = "done"
                 /\ UNCHANGED eligible
            ELSE /\ eligible' = filterParagraphs(ps, config)
                 /\ pc' = "place"
                 /\ UNCHANGED result
  /\ insertions' = <<>>
  /\ usedAnchors' = {}
  /\ linksPerParagraph' = <<>>
  /\ targetIdx' = 1
  /\ UNCHANGED << lookup, store, html, context, config, totalWords, maxLinks, targets, run,
                  firstRun, calls >>

\* lines 155-199: one iteration of the for-loop over the targets, or its exit
Place ==
  /\ pc = "place"
  /\ IF targetIdx > Len(targets) \/ ReachedMax(Len(insertions), maxLinks)
     THEN /\ pc' = "apply"
          /\ UNCHANGED << insertions, usedAnchors, linksPerParagraph, targetIdx >>
     ELSE LET target == targetsWithSortedAnchors(targets)[targetIdx]
              st == TryAnchors(target.anchors, target.url, eligible, maxLinks, config,
                               [insertions |-> insertions,
                                usedAnchors |-> usedAnchors,
                                linksPerParagraph |-> linksPerParagraph])
          IN  /\ insertions' = st.insertions
              /\ usedAnchors' = st.usedAnchors
              /\ linksPerParagraph' = st.linksPerParagraph
              /\ targetIdx' = targetIdx + 1
              /\ UNCHANGED pc
  /\ UNCHANGED << lookup, store, html, context, config, totalWords, maxLinks, targets,
                  paragraphs, eligible, result, run, firstRun, calls >>

\* lines 88-95: the rewrite and the result
Apply ==
  /\ pc = "apply"
  /\ result' = [html          |-> applyLinkInsertions(html, insertions),
                linksInserted |-> Len(insertions),
                targetsUsed   |-> TargetsUsed(insertions)]
  /\ pc' = "done"
  /\ UNCHANGED << lookup, store, html, context, config, totalWords, maxLinks, targets,
                  paragraphs, eligible, insertions, usedAnchors, linksPerParagraph,
                  targetIdx, run, firstRun, calls >>

\* the page is rendered again from the output of the first call, with the
\* same page context and configuration (an output without links is the input
\* again, and the call on it the same call)
RunAgain ==
  /\ pc = "done"
  /\ run = 1
  /\ result.linksInserted > 0
  /\ firstRun' = << [html |-> html, result |-> result, insertions |-> insertions] >>
  /\ html' = result.html
  /\ run' = 2
  /\ pc' = "start"
  /\ totalWords' = 0
  /\ maxLinks' = 0
  /\ targets' = <<>>
  /\ paragraphs' = <<>>
  /\ eligible' = <<>>
  /\ insertions' = <<>>
  /\ usedAnchors' = {}
  /\ linksPerParagraph' = <<>>
  /\ targetIdx' = 1
  /\ result' = Unchanged(<<>>)
  /\ UNCHANGED << lookup, store, context, config, calls >>

Next == Begin \/ Resolve \/ Extract \/ Place \/ Apply \/ RunAgain

\* the state on entry to addInternalLinks(doc, page, cfg) over the data st
Entry(st, doc, page, cfg) ==
  /\ store = st
  /\ html = doc
  /\ context = page
  /\ config = cfg
  /\ pc = "start"
  /\ totalWords = 0
  /\ maxLinks = 0
  /\ targets = <<>>
  /\ paragraphs = <<>>
  /\ eligible = <<>>
  /\ insertions = <<>>
  /\ usedAnchors = {}
  /\ linksPerParagraph = <<>>
  /\ targetIdx = 1
  /\ result = Unchanged(<<>>)
  /\ run = 1
  /\ firstRun = <<>>
  /\ calls = <<>>
  /\ lookup = NoLookup

(***************************************************************************)
(* Inputs.                                                                 *)
(***************************************************************************)
Para(body) == <<"<","p",">">> \o body \o <<"<","/","p",">">>

Sp == <<" ">>

\* n filler words
Filler(n) == [i \in 1..(2 * n) |-> IF i % 2 = 1 THEN " " ELSE "w"]


\* the sequences over S of length 1..n
RECURSIVE SeqsUpTo(_, _)
SeqsUpTo(S, n) ==
  IF n = 0 THEN {}
  ELSE LET shorter == SeqsUpTo(S, n - 1)
       IN  {<<x>> : x \in S} \cup shorter \cup {Append(q, x) : q \in shorter, x \in S}

PageById(st, id) == CHOOSE page \in Pages(st) : page.id = id

\* ---- link-density inputs: the word count against the three budget options
MaxFiller == 4

MaxCap == 3

BudgetDocs ==
  { Para(lead \o Filler(n)) :
      lead \in { <<>>,
                 T_Email,
                 T_CRMForStartups \o Sp \o T_PMTools \o Sp \o T_Email },
      n \in 0..MaxFiller }

BudgetConfigs ==
  { [defaultConfig EXCEPT !.maxLinksPerPage = cap,
                          !.linksPerWords = per,
                          !.minWordsBeforeLinking = least,
                          !.placementPolicy.minParagraphWords = 0] :
      cap \in 0..MaxCap, per \in {{}, {0}, {1}, {3}}, least \in {0, 6} }

InitBudget ==
  \E doc \in BudgetDocs :
    \E id \in {"crm-for-startups", "pm-for-teams", "email-marketing"} :
      \E cfg \in BudgetConfigs :
        Entry(SiteStore, doc, PageById(SiteStore, id), cfg)

SpecBudget == InitBudget /\ [][Next]_vars

\* ---- placement inputs: several paragraphs, anchors that contain one another
MaxParagraphs == 2

Bodies ==
  { T_CRMForStartups,
    T_Email \o Sp \o T_PMTools,
    T_SalesCRM \o Sp \o T_Email,
    <<"c","r","m"," ","e","m","a","i","l">> }

PlacementDocs ==
  { Concat([k \in 1..Len(bs) |-> Para(bs[k])]) : bs \in SeqsUpTo(Bodies, MaxParagraphs) }

PlacementConfigs ==
  { [defaultConfig EXCEPT !.linksPerWords = {},
                          !.minWordsBeforeLinking = 0,
                          !.dedupeAnchors = dedupe,
                          !.anchorPolicy.caseSensitive = sensitive,
                          !.placementPolicy.oneLinkPerParagraph = one,
                          !.placementPolicy.skipFirstParagraph = skip,
                          !.placementPolicy.minParagraphWords = least] :
      dedupe \in BOOLEAN, sensitive \in BOOLEAN, one \in BOOLEAN, skip \in BOOLEAN,
      least \in {0, 3} }

InitPlacement ==
  \E doc \in PlacementDocs :
    \E id \in {"crm-for-startups", "pm-for-teams"} :
      \E cfg \in PlacementConfigs :
        Entry(SiteStore, doc, PageById(SiteStore, id), cfg)

SpecPlacement == InitPlacement /\ [][Next]_vars

\* ---- markup inputs: one paragraph of text and tag tokens, balanced or not,
\* alone or enclosed by another element
MaxTokens == 3

Tokens ==
  { T_CRM, <<"<","a"," ","h","r","e","f","=","\"","/","x","/","\"",">">>, <<"<","/","a",">">>,
    <<"<","b",">">>, <<"<","/","b",">">>, <<"<","c","o","d","e",">">>, <<"<","b","r","/",">">> }

\* what stands before and after the tokens
Frames ==
  { << <<"<","p",">">>, <<" ","E","m","a","i","l","<","/","p",">">> >>,
    << <<"<","p"," ","c","l","a","s","s","=","\"","x","\"",">">>, <<" ","E","m","a","i","l","<","/","p",">">> >>,
    << <<"<","P",">">>, <<" ","E","m","a","i","l","<","/","P",">">> >>,
    << <<"<","n","a","v",">","<","p",">">>, <<" ","E","m","a","i","l","<","/","p",">","<","/","n","a","v",">">> >>,
    << <<"<","a"," ","h","r","e","f","=","\"","/","y","/","\"",">","<","p",">">>, <<" ","E","m","a","i","l","<","/","p",">","<","/","a",">">> >> }

MarkupDocs ==
  { frame[1] \o Concat(toks) \o frame[2] :
      frame \in Frames, toks \in SeqsUpTo(Tokens, MaxTokens) }

MarkupConfig ==
  [defaultConfig EXCEPT !.linksPerWords = {},
                        !.minWordsBeforeLinking = 0,
                        !.placementPolicy.minParagraphWords = 0]

InitMarkup ==
  \E doc \in MarkupDocs :
    Entry(FlatStore, doc, PageById(FlatStore, "project-management"), MarkupConfig)

SpecMarkup == InitMarkup /\ [][Next]_vars

\* ---- segmenter inputs: a paragraph of text, whitespace and tag tokens,
\* balanced or not; empty paragraphs included
SegmentTokens ==
  { T_CRM, Sp, <<"<","a"," ","h","r","e","f","=","\"","/","x","/","\"",">">>, <<"<","/","a",">">>, <<"<","b",">">>, <<"<","/","b",">">>, <<"<","c","o","d","e",">">>, <<"<","b","r","/",">">> }

SegmentFrames ==
  { << <<"<","p",">">>, <<"<","/","p",">">> >>,
    << <<"<","p"," ","c","l","a","s","s","=","\"","x","\"",">">>, <<" ","E","m","a","i","l","<","/","p",">">> >> }

SegmentDocs ==
  { frame[1] \o Concat(toks) \o frame[2] :
      frame \in SegmentFrames,
      toks \in {<<>>} \cup SeqsUpTo(SegmentTokens, MaxTokens) }

InitSegments ==
  \E doc \in SegmentDocs :
    Entry(FlatStore, doc, PageById(FlatStore, "project-management"), MarkupConfig)

SpecSegments == InitSegments /\ [][Next]_vars

\* ---- matching inputs: one or two paragraphs of words in either case, a
\* plural, a word inside an inline element and a Finnish compound
MaxWords == 2

T_Posti == <<"p","o","s","t","i">>

\* email-marketing carries the Finnish synonym 'posti'
MatchStore ==
  [FlatStore EXCEPT !.synonyms = [id \in {"email-marketing"} |-> << T_Posti >>]]

MatchWords ==
  { T_CRM, <<"c","r","m">>, <<"C","R","M","s">>, T_Posti, <<"s","ä","h","k","ö","p","o","s","t","i">>, <<"<","b",">","E","m","a","i","l","<","/","b",">">> }

RECURSIVE JoinWords(_)
JoinWords(words) ==
  IF Len(words) = 1 THEN words[1] ELSE words[1] \o Sp \o JoinWords(Tail(words))

MatchDocs ==
  { Para(JoinWords(words)) : words \in SeqsUpTo(MatchWords, MaxWords) }
  \cup { Para(first) \o Para(second) : first \in MatchWords, second \in MatchWords }

MatchConfigs ==
  { [MarkupConfig EXCEPT !.anchorPolicy.caseSensitive = sensitive,
                         !.placementPolicy.oneLinkPerParagraph = oneLink] :
      sensitive \in BOOLEAN, oneLink \in BOOLEAN }

InitMatching ==
  \E doc \in MatchDocs, cfg \in MatchConfigs :
    Entry(MatchStore, doc, PageById(MatchStore, "project-management"), cfg)

SpecMatching == InitMatching /\ [][Next]_vars

\* ---- filter inputs: paragraphs of one to three words, written <p> or <P>
UpperPara(body) == <<"<","P",">">> \o body \o <<"<","/","P",">">>

FilterBodies ==
  { T_Email, <<"c","r","m"," ","e","m","a","i","l">>, T_Email \o Sp \o T_PMTools }

FilterParagraphs ==
  { Para(body) : body \in FilterBodies } \cup { UpperPara(body) : body \in FilterBodies }

FilterDocs ==
  { Concat(ps) : ps \in SeqsUpTo(FilterParagraphs, MaxParagraphs) }

FilterConfigs ==
  { [MarkupConfig EXCEPT !.placementPolicy.oneLinkPerParagraph = one,
                         !.placementPolicy.skipFirstParagraph = skip,
                         !.placementPolicy.minParagraphWords = least] :
      one \in BOOLEAN, skip \in BOOLEAN, least \in {0, 3} }

InitFilter ==
  \E doc \in FilterDocs, cfg \in FilterConfigs :
    Entry(SiteStore, doc, PageById(SiteStore, "crm-for-startups"), cfg)

SpecFilter == InitFilter /\ [][Next]_vars

\* ---- the shipped configuration: pages long enough for its thresholds
MaxBlocks == 4

DefaultLeads ==
  { T_FreeCRM \o Sp \o T_PMTools,
    T_SalesCRM \o Sp \o T_Email,
    T_CRM \o Sp \o T_PMForTeams,
    T_CRMForStartups \o Sp \o T_PM }

\* a paragraph led by two anchor phrases and filled up in blocks of 50 words
DefaultDocs ==
  { Para(lead \o Filler(k * 50)) : lead \in DefaultLeads, k \in 1..MaxBlocks }

InitDefault ==
  \E doc \in DefaultDocs :
    \E page \in Pages(SiteStore) :
      Entry(SiteStore, doc, page, defaultConfig)

SpecDefault == InitDefault /\ [][Next]_vars

\* ---- one build: the page template calls addInternalLinks once per section,
\* page after page, with one configuration
MaxCalls == 3

\* the site data with one more synonym, equal to a title but for its case
CaseStore ==
  [SiteStore EXCEPT !.synonyms = ("email-marketing" :> << <<"c","r","m">> >>) @@ @]

SessionDocs ==
  { Para(T_CRM \o Sp \o <<"c","r","m">>),
    Para(T_CRMForStartups \o Sp \o T_PMTools \o Sp \o T_Email) }

SessionPages ==
  { PageById(CaseStore, id) : id \in {"crm-for-startups", "pm-for-teams"} }

SessionConfigs ==
  { [defaultConfig EXCEPT !.linksPerWords = {},
                          !.minWordsBeforeLinking = 0,
                          !.dedupeAnchors = dedupe,
                          !.anchorPolicy.caseSensitive = sensitive,
                          !.placementPolicy.minParagraphWords = 0] :
      dedupe \in BOOLEAN, sensitive \in BOOLEAN }

\* processWithLinks is called for the next section: the call that returned is
\* over, its arguments and result are remembered, and nothing but the
\* arguments is handed to the next call
NextCall ==
  /\ pc = "done"
  /\ Len(calls) + 1 < MaxCalls
  /\ calls' = Append(calls, [html |-> html, context |-> context, config |-> config,
                             result |-> result])
  /\ \E doc \in SessionDocs : html' = doc
  /\ \E page \in SessionPages : context' = page
  /\ pc' = "start"
  /\ UNCHANGED << lookup, store, config, totalWords, maxLinks, targets, paragraphs, eligible,
                  insertions, usedAnchors, linksPerParagraph, targetIdx, result, run,
                  firstRun >>

SessionNext == Begin \/ Resolve \/ Extract \/ Place \/ Apply \/ NextCall

InitSession ==
  \E doc \in SessionDocs :
    \E page \in SessionPages :
      \E cfg \in SessionConfigs :
        Entry(CaseStore, doc, page, cfg)

SpecSession == InitSession /\ [][SessionNext]_vars

\* ---- settings inputs: the switch, budget settings below zero, a relation
\* policy that lets no target through, sections with and without a paragraph
SettingsDocs ==
  { Para(T_CRMForStartups \o Sp \o T_PMTools \o Sp \o T_Email \o Filler(n)) :
      n \in {0, MaxFiller} }
  \cup { <<>>,
         T_CRM \o Sp \o T_Email,
         <<"<","d","i","v",">","C","R","M"," ","E","m","a","i","l","<","/","d","i","v",">">>,
         <<"<","h","2",">","E","m","a","i","l","<","/","h","2",">","<","u","l",">","<","l","i",">","C","R","M","<","/","l","i",">","<","/","u","l",">">> }

SettingsConfigs ==
  { [defaultConfig EXCEPT !.enabled = on,
                          !.maxLinksPerPage = cap,
                          !.linksPerWords = per,
                          !.minWordsBeforeLinking = least,
                          !.relationPolicy.includeRelations = include,
                          !.placementPolicy.minParagraphWords = 0] :
      on \in BOOLEAN, cap \in {-1, 2}, per \in {{}, {-3}, {3}}, least \in {-1, 0},
      include \in {{}, {"parent"}} }

InitSettings ==
  \E doc \in SettingsDocs :
    \E id \in {"crm-for-startups", "pm-for-teams", "email-marketing"} :
      \E cfg \in SettingsConfigs :
        Entry(SiteStore, doc, PageById(SiteStore, id), cfg)

SpecSettings == InitSettings /\ [][Next]_vars

\* ---- resolver inputs: every page of a four-level hierarchy whose related
\* lists cross the hierarchy, the relation and target policies, and the same
\* data with a subcategoryIds list that has fallen behind the parent fields
T_Trial == <<"T","r","i","a","l">>

\* a description that is one string for all locales
Plain(text) == [plain |-> text]

\* a description keyed by locale
PerLocale(locales) == [locale \in locales |-> <<"d">>]

Described(entity, description) == ("description" :> description) @@ entity

TreeCategories(crmSubcategoryIds) ==
  << Described(Category("crm-software", <<"c","r","m">>, T_CRM, crmSubcategoryIds),
               PerLocale({"en", "fi"})),
     Described(Category("email-marketing", <<"e","m","a","i","l">>, T_Email, <<>>), Plain(<<"d">>)),
     Described(Category("project-management", <<"p","m">>, T_PM, <<"pm-for-teams">>),
               PerLocale({"en", "fi"})) >>

TreeSubcategories ==
  << Described(Subcategory("crm-for-startups", <<"s","t","a","r","t","u","p","s">>, T_CRMForStartups, "crm-software",
                           <<"project-management", "crm-software", "crm-for-sales",
                             "free-crm-for-startups", "free-crm-trial">>),
               PerLocale({"en", "fi"})),
     Described(Subcategory("crm-for-sales", <<"s","a","l","e","s">>, T_SalesCRM, "crm-software", <<>>),
               PerLocale({"en"})),
     Described(Subcategory("free-crm-for-startups", <<"f","r","e","e">>, T_FreeCRM, "crm-for-startups",
                           <<"crm-software", "email-marketing">>),
               Plain(<<"d">>)),
     Described(Subcategory("free-crm-trial", <<"t","r","i","a","l">>, T_Trial, "free-crm-for-startups", <<>>),
               PerLocale({"fi"})),
     Described(Subcategory("pm-for-teams", <<"t","e","a","m","s">>, T_PMForTeams, "project-management",
                           <<"crm-software">>),
               PerLocale({"en", "fi"})) >>

TreeStore ==
  [categories    |-> TreeCategories(<<"crm-for-startups", "crm-for-sales">>),
   subcategories |-> TreeSubcategories,
   synonyms      |-> <<>>]

\* crm-for-startups names crm-software as its parent, the list of crm-software
\* does not name crm-for-startups
DriftStore ==
  [categories    |-> TreeCategories(<<"crm-for-sales">>),
   subcategories |-> TreeSubcategories,
   synonyms      |-> <<>>]

ResolverDoc == Para(T_CRMForStartups \o Sp \o T_Email \o Sp \o T_Trial)

ResolverConfigs ==
  { [defaultConfig EXCEPT !.linksPerWords = {},
                          !.minWordsBeforeLinking = 0,
                          !.allowSelfLink = self,
                          !.relationPolicy.excludeHierarchyByDefault = hierarchy,
                          !.relationPolicy.excludeRelations = exclude,
                          !.relationPolicy.includeRelations = include,
                          !.targetPolicy.preferSubcategoryOverCategory = prefer,
                          !.targetPolicy.disallowTargets = disallow,
                          !.placementPolicy.minParagraphWords = 0] :
      self \in BOOLEAN, hierarchy \in BOOLEAN, prefer \in BOOLEAN,
      exclude \in {{}, {"parent", "ancestor"}, {"sibling", "relatedCategoryIds"}},
      include \in {{}, {"relatedCategoryIds", "parent"}, {"child", "descendant", "sibling"}},
      disallow \in {{}, {"email-marketing", "crm-for-sales"}} }

InitResolver ==
  \E st \in {TreeStore, DriftStore} :
    \E page \in Pages(st) :
      \E cfg \in ResolverConfigs :
        Entry(st, ResolverDoc, page, cfg)

\* one call, from entry to return
CallNext == Begin \/ Resolve \/ Extract \/ Place \/ Apply

SpecResolver == InitResolver /\ [][CallNext]_vars

\* ---- a store with unresolvable references: crm-for-agencies names a parent
\* that is not in the store and has a child of its own, and the list of
\* project-management names a subcategory that is not in the store
T_AgencyCRM == <<"A","g","e","n","c","y"," ","C","R","M">>

OrphanStore ==
  [categories |->
     << TreeCategories(<<"crm-for-startups", "crm-for-sales">>)[1],
        TreeCategories(<<>>)[2],
        Described(Category("project-management", <<"p","m">>, T_PM,
                           <<"pm-for-teams", "pm-for-nobody">>),
                  PerLocale({"en", "fi"})) >>,
   subcategories |->
     TreeSubcategories
     \o << Described(Subcategory("crm-for-agencies", <<"a","g","e","n","c","i","e","s">>, T_AgencyCRM,
                                 "agency-software", <<"email-marketing">>),
                     Plain(<<"d">>)),
           Described(Subcategory("free-crm-for-agencies", <<"f","r","e","e">>, T_Trial,
                                 "crm-for-agencies", <<>>),
                     Plain(<<"d">>)) >>,
   synonyms |-> <<>>]

\* the relation policies of ResolverConfigs under the shipped target policy
OrphanConfigs ==
  { cfg \in ResolverConfigs :
      /\ cfg.targetPolicy.preferSubcategoryOverCategory
      /\ cfg.targetPolicy.disallowTargets = {} }

InitOrphans ==
  \E page \in Pages(OrphanStore) :
    \E cfg \in OrphanConfigs :
      Entry(OrphanStore, ResolverDoc, page, cfg)

SpecOrphans == InitOrphans /\ [][CallNext]_vars

\* ---- anchor inputs: a vocabulary that repeats the title and one of its own
\* entries, entities without an entry, the three anchor sources and the limit
MaxAnchorLimit == 3

T_Projects == <<"P","r","o","j","e","c","t","s">>

AnchorStore ==
  [SiteStore EXCEPT !.synonyms =
     [id \in {"project-management", "crm-for-sales"} |->
        IF id = "project-management"
        THEN << T_PMTools, T_PM, T_PMTools, T_Projects >>
        ELSE << T_CRM >>]]

AnchorConfigs ==
  { [defaultConfig EXCEPT !.linksPerWords = {},
                          !.minWordsBeforeLinking = 0,
                          !.anchorPolicy.source = source,
                          !.anchorPolicy.synonymsFile = file,
                          !.anchorPolicy.maxAnchorsPerTarget = limit,
                          !.placementPolicy.minParagraphWords = 0] :
      source \in {"title", "synonyms", "both"},
      file \in {"", "src/data/anchors.json"},
      limit \in 0..MaxAnchorLimit }

InitAnchors ==
  \E id \in {"crm-for-startups", "email-marketing", "pm-for-teams"} :
    \E cfg \in AnchorConfigs :
      Entry(AnchorStore, Para(T_CRMForStartups \o Sp \o T_PMTools \o Sp \o T_Email),
            PageById(AnchorStore, id), cfg)

SpecAnchors == InitAnchors /\ [][CallNext]_vars

\* the source ranges [position, position + length) of a and b intersect
Overlap(a, b) ==
  a.position < b.position + b.length /\ b.position < a.position + a.length

\* ---- rewriter inputs: applyLinkInsertions entered with any list, in any
\* order, of pairwise disjoint ranges of one section
MaxInsertions == 3

RewriteDoc == <<"<","p",">","R","&","D"," ","E","m","a","i","l"," ","P","M"," ","t","o","o","l","s","<","/","p",">">>

\* <<position, length>> of the words and two-word phrases of RewriteDoc
RewriteRanges == { <<3, 3>>, <<7, 5>>, <<13, 2>>, <<16, 5>>, <<7, 8>>, <<13, 8>> }

RewriteHrefs ==
  { <<"/","c","r","m","/">>,
    <<"/","s","?","a","=","1","&","b","=","\"","2","\"">>,
    <<"/","o","'","n","e","i","l","/","<","b",">","/">> }

RewriteInsertions ==
  { [position |-> r[1], length |-> r[2], href |-> url,
     text |-> Substring(RewriteDoc, r[1], r[1] + r[2])] :
      r \in RewriteRanges, url \in RewriteHrefs }

RewriteLists ==
  { ins \in SeqsUpTo(RewriteInsertions, MaxInsertions) :
      \A i, j \in 1..Len(ins) : i # j => ~Overlap(ins[i], ins[j]) }

\* the state on entry to applyLinkInsertions (index.ts 88)
InitRewrite ==
  \E ins \in RewriteLists :
    /\ store = FlatStore
    /\ html = RewriteDoc
    /\ context = PageById(FlatStore, "crm-software")
    /\ config = MarkupConfig
    /\ pc = "apply"
    /\ totalWords = 0
    /\ maxLinks = 0
    /\ targets = <<>>
    /\ paragraphs = <<>>
    /\ eligible = <<>>
    /\ insertions = ins
    /\ usedAnchors = {}
    /\ linksPerParagraph = <<>>
    /\ targetIdx = 1
    /\ result = Unchanged(<<>>)
    /\ run = 1
    /\ firstRun = <<>>
    /\ calls = <<>>
    /\ lookup = NoLookup

SpecRewrite == InitRewrite /\ [][Next]_vars

(***************************************************************************)
(* The link budget (checked under SpecBudget).                             *)
(***************************************************************************)
\* the tag-stripped word count of the input of the current call
InputWords == countWords(StripTags(html))

\* min(maxLinksPerPage, floor(totalWords / linksPerWords)), the second term
\* absent when linksPerWords is null and unbounded when it is 0
LinkBudget ==
  IF config.linksPerWords \in {{}, {0}} THEN config.maxLinksPerPage
  ELSE LET per == CHOOSE n \in config.linksPerWords : TRUE
       IN  IF config.maxLinksPerPage <= InputWords \div per
           THEN config.maxLinksPerPage ELSE InputWords \div per

\* C1: a finished call reports linksInserted <= min(maxLinksPerPage,
\* floor(totalWords / linksPerWords)); the cap computed for the placement is
\* never a negative number; and once the number of insertions has reached
\* the budget the placement loop commits no further insertion.
BudgetRespected ==
  /\ [](pc = "done" => result.linksInserted <= LinkBudget)
  /\ [](pc \in {"resolve", "extract", "place", "apply"}
          => maxLinks = NaN \/ maxLinks >= 0)
  /\ [][pc = "place" /\ Len(insertions) >= LinkBudget
          => insertions' = insertions]_vars

\* the word-based limit is the binding one, it is met exactly, and targets
\* were still waiting when the loop stopped
BudgetExhausted ==
  /\ pc = "done"
  /\ result.linksInserted >= 1
  /\ result.linksInserted = LinkBudget
  /\ LinkBudget < config.maxLinksPerPage
  /\ targetIdx <= Len(targets)

\* some eligible target has an anchor with a whole-phrase match in a
\* paragraph of the input
AnchorPresent ==
  \E t \in Range(getEligibleTargets(context, config)) :
    \E a \in Range(t.anchors) :
      findFirstOccurrence(extractParagraphs(html), a, t.url, config, <<>>) # <<>>

\* C2: a call whose input has fewer words than minWordsBeforeLinking returns
\* the input HTML unchanged, linksInserted = 0 and no targetsUsed.
BelowThresholdUnchanged ==
  pc = "done" /\ InputWords < config.minWordsBeforeLinking
    => /\ result.html = html
       /\ result.linksInserted = 0
       /\ result.targetsUsed = <<>>

\* a thin page that names an eligible target, under a cap that would allow a link
ThinPageWithAnchor ==
  /\ pc = "done"
  /\ InputWords < config.minWordsBeforeLinking
  /\ config.maxLinksPerPage >= 1
  /\ InputWords >= 1
  /\ AnchorPresent


(***************************************************************************)
(* Placement (checked under SpecPlacement).                                *)
(***************************************************************************)
\* C3: the insertions of one placement pass are pairwise non-overlapping, also
\* when anchors of two targets contain one another or are the same phrase.
InsertionsDisjoint ==
  \A i, j \in 1..Len(insertions) :
    i # j => ~Overlap(insertions[i], insertions[j])

\* the insertions whose position lies in paragraph p of the input
LinksIn(p) ==
  {i \in 1..Len(insertions) :
     insertions[i].position >= p.startIndex /\ insertions[i].position < p.endIndex}

\* C7: with oneLinkPerParagraph set, no paragraph of the input receives more
\* than one insertion, whatever skipFirstParagraph and minParagraphWords are.
OneLinkPerParagraph ==
  config.placementPolicy.oneLinkPerParagraph
    => \A p \in Range(paragraphs) : Cardinality(LinksIn(p)) <= 1

\* anchor a of target t can be committed now: it is not a used-up anchor and
\* it has a whole-phrase match in a paragraph that may still take a link
EligibleMatch(a, t) ==
  /\ ~(config.dedupeAnchors /\ AnchorKey(a, config) \in usedAnchors)
  /\ findFirstOccurrence(eligible, a, t.url, config, linksPerParagraph) # <<>>

\* C8: every target has at most one insertion, and a placement step commits
\* at most one insertion, for the target of that step, whose anchor is at
\* least as long as every anchor of the target that had an eligible match.
LongestAnchorWins ==
  /\ [](\A t \in Range(targets) :
          Cardinality({i \in 1..Len(insertions) : insertions[i].href = t.url}) <= 1)
  /\ [][pc = "place" /\ insertions' # insertions
          => LET t     == targets[targetIdx]
                 found == insertions'[Len(insertions')]
             IN  /\ insertions' = Append(insertions, found)
                 /\ found.href = t.url
                 /\ \A a \in Range(t.anchors) :
                      EligibleMatch(a, t) => Len(a) <= found.length]_vars

\* a target was linked by an anchor that the resolver lists after a shorter
\* anchor of its own, the shorter one matching in the content too
LongerAnchorChosen ==
  /\ pc = "apply"
  /\ \E i \in 1..Len(insertions) :
       \E t \in Range(targets) :
         /\ t.url = insertions[i].href
         /\ Len(t.anchors[1]) < insertions[i].length
         /\ findFirstOccurrence(eligible, t.anchors[1], t.url, config, <<>>) # <<>>

\* the range of ins lies within an occurrence, as a whole phrase, of the
\* longer phrase a in the input
InsideLongerPhrase(ins, a) ==
  /\ Len(a) > ins.length
  /\ \E k \in 0..(Len(html) - Len(a)) :
       /\ MatchesAt(html, k, a, ~config.anchorPolicy.caseSensitive)
       /\ WordBoundaryAt(html, k)
       /\ WordBoundaryAt(html, k + Len(a))
       /\ k <= ins.position
       /\ ins.position + ins.length <= k + Len(a)

\* C9: no insertion for one target covers a part of an occurrence of a longer
\* anchor phrase that belongs to another eligible target.
NoShortInsideLong ==
  \A i \in 1..Len(insertions) :
    \A t \in Range(targets) :
      t.url # insertions[i].href
        => \A a \in Range(t.anchors) : ~InsideLongerPhrase(insertions[i], a)

(***************************************************************************)
(* Relations (checked under SpecDefault and SpecBudget).                   *)
(***************************************************************************)
\* the page itself, its parent, its computed children and its siblings
HierarchyIds ==
  {context.id, context.entity.parentCategoryId}
  \cup {sub.id : sub \in {x \in Range(store.subcategories) :
                            x.parentCategoryId = context.id}}
  \cup {sub.id : sub \in {x \in Range(store.subcategories) :
                            x.parentCategoryId = context.entity.parentCategoryId}}

\* C4: under the shipped configuration, no link inserted on a nested page
\* leads to the page itself, its parent, a child or a sibling.
HierarchyExcluded ==
  pc = "done" /\ context.type = "subcategory"
    => \A href \in Range(result.targetsUsed) :
         \A t \in Range(targets) : t.url = href => t.id \notin HierarchyIds

\* C10: on a nested page with a budget of at least one link, every entity of
\* relatedIds that has an anchor in the paragraph text is the target of an
\* insertion when the placement has finished.
RelatedLinked ==
  pc = "apply" /\ context.type = "subcategory" /\ maxLinks >= 1
    => \A t \in Range(targets) :
         /\ t.id \in Range(context.entity.relatedCategoryIds)
         /\ \E a \in Range(t.anchors) :
              findFirstOccurrence(eligible, a, t.url, config, <<>>) # <<>>
         => \E i \in 1..Len(insertions) : insertions[i].href = t.url

(***************************************************************************)
(* Markup (checked under SpecMarkup).                                      *)
(***************************************************************************)
\* C5: no insertion starts inside an excluded element of the input, whether
\* the element stands within the paragraph or encloses it.
NoInsertionInExcluded ==
  \A i \in 1..Len(insertions) :
    ~isInExcludedRegion(insertions[i].position, findExcludedRegions(html))

\* the anchor elements of the input
AnchorRegions == ElementMatches(html, 0, <<"a">>)

\* C6: a second call on the output of the first places no link inside an
\* existing anchor element and no link whose text the first call has linked.
SecondRunClean ==
  run = 2
    => \A i \in 1..Len(insertions) :
         /\ ~isInExcludedRegion(insertions[i].position, AnchorRegions)
         /\ \A j \in 1..Len(firstRun[1].insertions) :
              AnchorKey(insertions[i].text, config)
                # AnchorKey(firstRun[1].insertions[j].text, config)

(***************************************************************************)
(* Determinism and statelessness (checked under SpecSession).              *)
(***************************************************************************)
\* the calls that have returned, the current one included
Returned ==
  IF pc = "done"
  THEN Append(calls, [html |-> html, context |-> context, config |-> config,
                      result |-> result])
  ELSE calls

SameArguments(a, b) ==
  a.html = b.html /\ a.context = b.context /\ a.config = b.config

\* C11: two calls of addInternalLinks with identical (html, context, config)
\* over the same data return the same html, linksInserted and targetsUsed,
\* whatever was processed between them; and no step of a call changes the
\* data, the configuration, or the resolved targets and their anchors lists.
Deterministic ==
  /\ [](\A i, j \in 1..Len(Returned) :
          SameArguments(Returned[i], Returned[j])
            => Returned[i].result = Returned[j].result)
  /\ [][/\ store' = store
        /\ config' = config
        /\ pc # "done" => html' = html /\ context' = context
        /\ pc \in {"extract", "place", "apply"} => targets' = targets]_vars

\* the third call repeats the first, both inserted links, and the call between
\* them was for another page and section and inserted links as well
RepeatedAfterAnotherPage ==
  /\ pc = "done"
  /\ Len(calls) = 2
  /\ config.dedupeAnchors
  /\ calls[1].html = html /\ calls[1].context = context
  /\ calls[2].html # html /\ calls[2].context # context
  /\ result.linksInserted >= 1
  /\ calls[2].result.linksInserted >= 1

(***************************************************************************)
(* Nothing to do, and settings that make no sense (checked under           *)
(* SpecSettings).                                                          *)
(***************************************************************************)
\* C12: when the engine is disabled, when the resolver returns no eligible
\* target, or when the HTML contains no paragraph, the call returns the input
\* HTML unchanged with linksInserted = 0 and no targetsUsed; and it returns
\* normally, from the very step that finds there is nothing to do.
NothingToDoUnchanged ==
  /\ [](pc = "done" /\ (\/ ~config.enabled
                        \/ getEligibleTargets(context, config) = <<>>
                        \/ extractParagraphs(html) = <<>>)
          => /\ result.html = html
             /\ result.linksInserted = 0
             /\ result.targetsUsed = <<>>)
  /\ [][/\ pc = "start" /\ ~config.enabled => pc' = "done"
        /\ pc = "resolve" /\ getEligibleTargets(context, config) = <<>> => pc' = "done"
        /\ pc = "extract" /\ extractParagraphs(html) = <<>> => pc' = "done"]_vars

\* an enabled engine with eligible targets and a positive budget returned from
\* a section that names targets but has no paragraph
NoParagraphReturned ==
  /\ pc = "done"
  /\ config.enabled
  /\ targets # <<>>
  /\ maxLinks > 0
  /\ html # <<>>
  /\ paragraphs = <<>>
  /\ extractParagraphs(html) = <<>>
  /\ \E t \in Range(targets) : \E a \in Range(t.anchors) : IndexOf(html, a, 0, TRUE) >= 0

\* a disabled engine returned from a section where it would have linked
DisabledReturned ==
  /\ pc = "done"
  /\ ~config.enabled
  /\ AnchorPresent
  /\ config.maxLinksPerPage > 0

\* the resolver returned nothing for a section where any target would match
NoTargetReturned ==
  /\ pc = "done"
  /\ config.enabled
  /\ targets = <<>>
  /\ getEligibleTargets(context, config) = <<>>
  /\ extractParagraphs(html) # <<>>
  /\ config.maxLinksPerPage > 0

NegativeSetting(cfg) ==
  \/ cfg.maxLinksPerPage < 0
  \/ \E n \in cfg.linksPerWords : n < 0
  \/ cfg.minWordsBeforeLinking < 0

\* C13: a call whose configuration has a negative maxLinksPerPage,
\* linksPerWords or minWordsBeforeLinking fails before it processes the HTML:
\* it never counts words, resolves targets, places links or returns a result.
NegativeSettingRejected ==
  NegativeSetting(config) => pc \in {"start", "failed"}

(***************************************************************************)
(* The rewriter (checked under SpecRewrite).                               *)
(***************************************************************************)
RECURSIVE SubstitutedFrom(_, _, _)
\* doc from offset from on, with the ranges of the insertions in the set rest
\* (all at or after from) replaced by their anchor elements, left to right
SubstitutedFrom(doc, from, rest) ==
  IF rest = {} THEN SubstringFrom(doc, from)
  ELSE LET first == CHOOSE x \in rest : \A y \in rest : x.position <= y.position
       IN  Substring(doc, from, first.position) \o LinkMarkup(first)
           \o SubstitutedFrom(doc, first.position + first.length, rest \ {first})

\* doc with every range [position, position + length) of ins replaced at once
\* by the anchor element of its insertion
Substituted(doc, ins) == SubstitutedFrom(doc, 0, Range(ins))

\* C14: for pairwise non-overlapping insertions in any order,
\* applyLinkInsertions returns the HTML with each range replaced by the anchor
\* element of its insertion and every other character unchanged and in place:
\* the simultaneous substitution, whatever the order of the list.
RewriteIsSubstitution ==
  pc = "done" /\ InsertionsDisjoint
    => result.html = Substituted(html, insertions)

\* three insertions were applied from a list that is neither in ascending nor
\* in descending order of position
UnorderedListApplied ==
  /\ pc = "done"
  /\ run = 1
  /\ Len(insertions) = 3
  /\ insertions[2].position < insertions[1].position
  /\ insertions[2].position < insertions[3].position
  /\ result.linksInserted = 3

(***************************************************************************)
(* Anchor deduplication (checked under SpecSession).                       *)
(***************************************************************************)
\* C15: with dedupeAnchors on, no two insertions of one call were committed
\* for the same anchor string, strings compared after case folding unless
\* caseSensitive is set: every insertion consumed an anchor string of its
\* own, and a placement step commits no insertion for a string already
\* consumed.
AnchorsUsedOnce ==
  /\ [](config.dedupeAnchors
          => /\ Cardinality(usedAnchors) = Len(insertions)
             /\ \A i, j \in 1..Len(insertions) :
                  i # j => AnchorKey(insertions[i].text, config)
                             # AnchorKey(insertions[j].text, config))
  /\ [][pc = "place" /\ config.dedupeAnchors /\ Len(insertions') > Len(insertions)
          => AnchorKey(insertions'[Len(insertions')].text, config) \notin usedAnchors]_vars

\* a target was passed over although one of its anchors would match: the
\* phrase it matches was consumed under an anchor that differs from this one
\* in case only
SkippedForCaseVariant ==
  /\ pc = "done"
  /\ config.dedupeAnchors
  /\ ~config.anchorPolicy.caseSensitive
  /\ result.linksInserted >= 1
  /\ \E t \in Range(targets) :
       /\ \A i \in 1..Len(insertions) : insertions[i].href # t.url
       /\ \E a \in Range(t.anchors) :
            /\ AnchorKey(a, config) \in usedAnchors
            /\ findFirstOccurrence(eligible, a, t.url, config, linksPerParagraph) # <<>>
            /\ \E i \in 1..Len(insertions) :
                 /\ insertions[i].text # a
                 /\ ToLowerCase(insertions[i].text) = ToLowerCase(a)

(***************************************************************************)
(* The resolver (checked under SpecResolver).                              *)
(***************************************************************************)
\* the hierarchy as the parent fields alone define it
ChildrenByParent(id) ==
  {x.id : x \in {y \in Range(store.subcategories) : y.parentCategoryId = id}}

RECURSIVE DescendantsByParent(_)
DescendantsByParent(id) ==
  ChildrenByParent(id)
  \cup UNION {DescendantsByParent(childId) : childId \in ChildrenByParent(id)}

AncestorsByParent(id) ==
  {x.id : x \in {y \in Range(store.categories) \cup Range(store.subcategories) :
                   id \in DescendantsByParent(y.id)}}

SiblingsByParent(page) ==
  IF page.type = "subcategory"
  THEN ChildrenByParent(page.entity.parentCategoryId) \ {page.id}
  ELSE {}

\* the call has resolved its targets
Resolved == pc \in {"extract", "place", "apply"}

\* C16: with excludeHierarchyByDefault on, getEligibleTargets returns no target
\* that is the parent, a child, a descendant, an ancestor or a sibling of the
\* page, the hierarchy being the one of the parent fields whatever the stored
\* subcategoryIds lists say, and it returns the page itself only if
\* allowSelfLink is set.
HierarchyNeverTargeted ==
  Resolved /\ config.relationPolicy.excludeHierarchyByDefault
    => \A t \in Range(targets) :
         /\ t.id \notin DescendantsByParent(context.id)
         /\ t.id \notin AncestorsByParent(context.id)
         /\ t.id \notin SiblingsByParent(context)
         /\ ~config.allowSelfLink => t.id # context.id

(***************************************************************************)
(* i18n: which locales an entity exists in.  A Localizable description is  *)
(* a record: [plain |-> text] for the single string, a record keyed by     *)
(* locale otherwise.  Titles are single strings, the form the resolver     *)
(* reads them in.                                                          *)
(***************************************************************************)
supportedLocales == <<"en", "fi">>

defaultLocale == "en"

linkPolicyConfig == [missingLocaleTarget |-> "skip"]

\* an object with at least one supported locale as a key
isLocalizedContent(value) ==
  \E k \in 1..Len(supportedLocales) : supportedLocales[k] \in DOMAIN value

\* fieldsToCheck: title (a single string), description, content (absent)
getAvailableLocalesForEntity(entity) ==
  {defaultLocale}
  \cup (IF "description" \notin DOMAIN entity THEN {}
        ELSE IF isLocalizedContent(entity.description)
             THEN {locale \in Range(supportedLocales) : locale \in DOMAIN entity.description}
             ELSE {defaultLocale})

EntityOfTarget(t) ==
  CHOOSE entity \in Range(store.categories) \cup Range(store.subcategories) :
    entity.id = t.id

\* C17: under the default link policy ('skip'), in whichever locale the
\* current page is rendered, every link inserted leads to an entity that has
\* a variant in that locale.
LinksStayInLocale ==
  pc = "apply" /\ linkPolicyConfig.missingLocaleTarget = "skip"
    => \A locale \in getAvailableLocalesForEntity(context.entity) :
         \A i \in 1..Len(insertions) :
           \A t \in Range(targets) :
             t.url = insertions[i].href
               => locale \in getAvailableLocalesForEntity(EntityOfTarget(t))

\* the relation of the page to the entity id, by the first rule that matches
KindByParent(page, id) ==
  IF id = page.entity.parentCategoryId THEN "parent"
  ELSE IF id \in ChildrenByParent(page.id) THEN "child"
  ELSE IF id \in AncestorsByParent(page.id) THEN "ancestor"
  ELSE IF id \in DescendantsByParent(page.id) THEN "descendant"
  ELSE IF id \in Range(page.entity.relatedCategoryIds) THEN "relatedCategoryIds"
  ELSE IF id \in SiblingsByParent(page) THEN "sibling"
  ELSE "relatedCategoryIds"

\* C18: on a nested page every returned target carries the relation of the
\* first matching rule in the order parent, child, ancestor, descendant,
\* listed in relatedIds, sibling (sharing the page's parent), and 'related'
\* when no rule matches.
RelationByFirstRule ==
  Resolved /\ context.type = "subcategory"
    => \A t \in Range(targets) : t.relation = KindByParent(context, t.id)

\* C19: no returned target has a relation listed in excludeRelations or an id
\* listed in disallowTargets; with a non-empty includeRelations every returned
\* target has a relation listed there; a relation in both lists is excluded.
RelationFilterRespected ==
  Resolved
    => \A t \in Range(targets) :
         /\ t.relation = getRelation(context, EntityOfTarget(t))
         /\ t.relation \notin config.relationPolicy.excludeRelations
         /\ t.id \notin config.targetPolicy.disallowTargets
         /\ config.relationPolicy.includeRelations # {}
              => t.relation \in config.relationPolicy.includeRelations

\* a relation stands in both lists, the page has candidates of that relation
\* and candidates on the deny-list, and other targets were returned
ExcludedThoughIncluded ==
  /\ Resolved
  /\ targets # <<>>
  /\ \E entity \in Range(store.categories) \cup Range(store.subcategories) :
       /\ entity.id # context.id
       /\ getRelation(context, entity) \in config.relationPolicy.excludeRelations
       /\ getRelation(context, entity) \in config.relationPolicy.includeRelations
  /\ \E entity \in Range(store.categories) \cup Range(store.subcategories) :
       /\ entity.id \in config.targetPolicy.disallowTargets
       /\ isRelationAllowed(getRelation(context, entity), config)

\* the place of an entity in the order the resolver walks the data in: all
\* categories, then all subcategories
ResolverIndex(id) ==
  LET all == store.categories \o store.subcategories
  IN  CHOOSE k \in 1..Len(all) : all[k].id = id

\* C20: the returned list is in non-increasing priority order, targets of
\* equal priority stand in resolver order (categories in data order, then
\* subcategories in data order), and the placement loop takes the targets one
\* by one in the order of the list, starting with the first.
TargetsInPriorityOrder ==
  /\ [](Resolved
          => \A i, j \in 1..Len(targets) :
               i < j => \/ targets[i].priority > targets[j].priority
                        \/ /\ targets[i].priority = targets[j].priority
                           /\ ResolverIndex(targets[i].id) < ResolverIndex(targets[j].id))
  /\ [][/\ pc = "extract" => targetIdx' = 1
        /\ pc = "place" /\ pc' = "place"
             => /\ targetIdx' = targetIdx + 1
                /\ Len(insertions') > Len(insertions)
                     => insertions'[Len(insertions')].href = targets[targetIdx].url]_vars

\* the loop has gone through a list in which a category and a subcategory of
\* equal priority stand above targets of lower priority, and it linked a
\* target that is not the first of the list
TiedTargetsVisited ==
  /\ pc = "apply"
  /\ targetIdx > Len(targets)
  /\ \E i, j \in 1..Len(targets) :
       /\ i < j
       /\ targets[i].priority = targets[j].priority
       /\ targets[i].id \in {x.id : x \in Range(store.categories)}
       /\ targets[j].id \in {x.id : x \in Range(store.subcategories)}
  /\ targets[1].priority > targets[Len(targets)].priority
  /\ \E i \in 1..Len(insertions) : insertions[i].href # targets[1].url

\* C21: a returned target of relation 'related' has a strictly higher priority
\* than every returned target of another relation, with or without the bonus
\* for subcategories on either side.
RelatedAboveStructural ==
  Resolved
    => \A t, u \in Range(targets) :
         t.relation = "relatedCategoryIds" /\ u.relation # "relatedCategoryIds"
           => t.priority > u.priority

\* a related category, which gets no bonus, stands in one list with a sibling
\* subcategory, which gets it
RelatedCategoryWithSiblingSubcategory ==
  /\ Resolved
  /\ config.targetPolicy.preferSubcategoryOverCategory
  /\ \E t, u \in Range(targets) :
       /\ t.relation = "relatedCategoryIds"
       /\ t.id \in {x.id : x \in Range(store.categories)}
       /\ u.relation = "sibling"
       /\ u.id \in {x.id : x \in Range(store.subcategories)}

(***************************************************************************)
(* Anchors and URLs of the targets (checked under SpecAnchors).            *)
(***************************************************************************)
\* the title when the source includes titles, then the vocabulary entries of
\* the entity when the source includes synonyms
AnchorCandidates(entity) ==
  (IF config.anchorPolicy.source \in {"title", "both"} THEN << entity.title >> ELSE <<>>)
  \o (IF config.anchorPolicy.source \in {"synonyms", "both"}
         /\ config.anchorPolicy.synonymsFile # ""
         /\ entity.id \in DOMAIN store.synonyms
      THEN store.synonyms[entity.id] ELSE <<>>)

\* the positions of words that hold the first occurrence of their string
FirstOccurrences(words) ==
  {k \in 1..Len(words) : \A m \in 1..(k - 1) : words[m] # words[k]}

\* C22: the anchors of every returned target are not empty, pairwise
\* different, at most maxAnchorsPerTarget, and are the first strings, each
\* taken once, of the title (when the source includes titles) followed by the
\* vocabulary entries of the entity in vocabulary order; an entity without an
\* entry gets no synonyms; an entity left without an anchor is not returned.
AnchorsWellFormed ==
  Resolved
    => \A t \in Range(targets) :
         LET words == AnchorCandidates(EntityOfTarget(t))
             firsts == FirstOccurrences(words)
         IN  /\ t.anchors # <<>>
             /\ \A i, j \in 1..Len(t.anchors) : i # j => t.anchors[i] # t.anchors[j]
             /\ Len(t.anchors) <= config.anchorPolicy.maxAnchorsPerTarget
             /\ Len(t.anchors) <= Cardinality(firsts)
             /\ \A i \in 1..Len(t.anchors) :
                  \E k \in firsts :
                    /\ t.anchors[i] = words[k]
                    /\ Cardinality({m \in firsts : m < k}) = i - 1
             /\ Len(t.anchors) < config.anchorPolicy.maxAnchorsPerTarget
                  => Len(t.anchors) = Cardinality(firsts)

\* a target came back with the title and two vocabulary entries, out of a
\* vocabulary of four that repeats the title and one of its entries
AnchorsDedupedAndCut ==
  /\ Resolved
  /\ \E t \in Range(targets) :
       /\ Len(t.anchors) = 3
       /\ Len(AnchorCandidates(EntityOfTarget(t))) = 5
       /\ t.anchors[1] = t.title
  /\ config.anchorPolicy.maxAnchorsPerTarget = 3

(***************************************************************************)
(* URLs of the targets (checked under SpecResolver).                       *)
(***************************************************************************)
\* the entity of the ancestor chain of id (id included) that has n ancestors
ChainMember(id, n) ==
  CHOOSE entity \in Range(store.categories) \cup Range(store.subcategories) :
    /\ entity.id \in AncestorsByParent(id) \cup {id}
    /\ Cardinality(AncestorsByParent(entity.id)) = n

\* '/' + slug + '/' + ... + slug + '/', from the root category down to id
UrlByChain(id) ==
  LET depth == Cardinality(AncestorsByParent(id))
  IN  <<"/">> \o Concat([k \in 1..(depth + 1) |-> ChainMember(id, k - 1).slug \o <<"/">>])

TextNodeOffsetsAbsolute ==
  \A k \in 1..Len(paragraphs) :
    \A n \in 1..Len(paragraphs[k].textNodes) :
      LET node == paragraphs[k].textNodes[n]
      IN  Substring(html, node.startIndex, node.endIndex) = node.text

\* the open-tag stack in front of part k: an opening tag that is not
\* self-closing is pushed, a closing tag pops the top when it names it
RECURSIVE OpenTagsBefore(_, _)
OpenTagsBefore(parts, k) ==
  IF k <= 1 THEN <<>>
  ELSE LET before == OpenTagsBefore(parts, k - 1)
           tag    == parts[k - 1]
           name   == TagName(tag)
       IN  IF (k - 1) % 2 = 1 THEN before
           ELSE IF tag[2] = "/"
                THEN IF before # <<>> /\ before[Len(before)] = name
                     THEN SubSeq(before, 1, Len(before) - 1)
                     ELSE before
                ELSE IF tag[Len(tag) - 1] = "/" THEN before
                     ELSE Append(before, name)

\* the text tokens of paragraph p that lie under no excluded open tag and
\* are not blank, with their offsets in the document
ExpectedTextNodes(p) ==
  LET open  == OpenTagEndAt(p.fullHtml, 0, <<"p">>, FALSE)
      parts == SplitTags(Substring(p.fullHtml, open, Len(p.fullHtml) - 4))
      at(k) == p.startIndex + open + Len(Concat(SubSeq(parts, 1, k - 1)))
  IN  { [text |-> parts[k], startIndex |-> at(k)] :
          k \in { j \in 1..Len(parts) :
                    /\ j % 2 = 1
                    /\ HasNonSpace(parts[j])
                    /\ \A i \in 1..Len(OpenTagsBefore(parts, j)) :
                         OpenTagsBefore(parts, j)[i] \notin EXCLUDED_TAGS } }

\* C25: for every token sequence in a paragraph, balanced or not, the
\* segmenter returns exactly the non-blank text tokens with no excluded tag
\* on the open-tag stack (self-closing tags push nothing), so text after an
\* excluded opening tag that is never properly closed is not returned, and
\* an empty, blank or wholly excluded paragraph yields no region; the step
\* itself always completes.
SegmenterFollowsTagStack ==
  /\ \A k \in 1..Len(paragraphs) :
       { [text |-> n.text, startIndex |-> n.startIndex] :
           n \in Range(paragraphs[k].textNodes) } = ExpectedTextNodes(paragraphs[k])
  /\ pc \in {"place", "apply"} => Len(paragraphs) = 1

\* the anchor element is closed out of order, and nothing after it is returned
MismatchedCloseYieldsNothing ==
  /\ Len(paragraphs) = 1
  /\ paragraphs[1].textNodes = <<>>
  /\ html = <<"<","p"," ","c","l","a","s","s","=","\"","x","\"",">">> \o <<"<","a"," ","h","r","e","f","=","\"","/","x","/","\"",">">> \o <<"<","b",">">> \o <<"<","/","a",">">> \o <<" ","E","m","a","i","l","<","/","p",">">>

(***************************************************************************)
(* Matching (checked under SpecMatching).                                  *)
(***************************************************************************)
\* the characters words are made of in the content
IsLetterOrDigit(c) == IsWordChar(c) \/ c \in {"ä", "ö"}

\* the range [k, k + n) lies in one text region of a paragraph that may
\* still take a link
InEligibleRegion(k, n) ==
  \E p \in Range(eligible) :
    /\ ~(config.placementPolicy.oneLinkPerParagraph
         /\ MapGet(linksPerParagraph, p.index) >= 1)
    /\ \E node \in Range(p.textNodes) :
         node.startIndex <= k /\ k + n <= node.endIndex

\* the offsets in the document where anchor a stands as a whole phrase in
\* an eligible text region
WholePhraseMatches(a) ==
  { k \in 0..(Len(html) - Len(a)) :
      /\ InEligibleRegion(k, Len(a))
      /\ MatchesAt(html, k, a, ~config.anchorPolicy.caseSensitive)
      /\ ~IsLetterOrDigit(CharAt(html, k - 1))
      /\ ~IsLetterOrDigit(CharAt(html, k + Len(a))) }

\* C26: a committed insertion carries the matched source text unchanged, it
\* neither begins nor ends inside a word, and in the step that commits it, it
\* stands at the least offset where an anchor of the target (in any case
\* unless caseSensitive is set) is a whole phrase of an eligible text region.
FirstWholePhraseMatch ==
  /\ [](\A i \in 1..Len(insertions) :
          LET ins == insertions[i]
          IN  /\ Substring(html, ins.position, ins.position + ins.length) = ins.text
              /\ ~IsLetterOrDigit(CharAt(html, ins.position - 1))
              /\ ~IsLetterOrDigit(CharAt(html, ins.position + ins.length)))
  /\ [][pc = "place" /\ insertions' # insertions
          => LET found == insertions'[Len(insertions')]
             IN  \E a \in Range(targets[targetIdx].anchors) :
                   /\ WholePhraseMatches(a) # {}
                   /\ found.position = MinOfSet(WholePhraseMatches(a))
                   /\ found.length = Len(a)]_vars

(***************************************************************************)
(* Escaping in the rewriter (checked under SpecRewrite).                   *)
(***************************************************************************)
\* the character references escapeHtml may write, with what they stand for
Entities ==
  { << <<"&","a","m","p",";">>, "&" >>, << <<"&","l","t",";">>, "<" >>, << <<"&","g","t",";">>, ">" >>,
    << <<"&","q","u","o","t",";">>, "\"" >>, << <<"&","#","0","3","9",";">>, "'" >> }

\* s holds none of < > " ' and no & that does not begin a character reference
NoRawMarkup(s) ==
  \A i \in 1..Len(s) :
    /\ s[i] \notin {"<", ">", "\"", "'"}
    /\ s[i] = "&" => \E e \in Entities : MatchesAt(s, i - 1, e[1], FALSE)

RECURSIVE DecodeEntities(_)
\* what a browser reads from s: every character reference replaced by its
\* character
DecodeEntities(s) ==
  IF s = <<>> THEN <<>>
  ELSE IF \E e \in Entities : MatchesAt(s, 0, e[1], FALSE)
       THEN LET e == CHOOSE x \in Entities : MatchesAt(s, 0, x[1], FALSE)
            IN  <<e[2]>> \o DecodeEntities(SubstringFrom(s, Len(e[1])))
       ELSE <<s[1]>> \o DecodeEntities(Tail(s))

\* the k-th insertion in ascending order of position
InsertionAt(k) ==
  CHOOSE x \in Range(insertions) :
    Cardinality({y \in Range(insertions) : y.position < x.position}) = k - 1

\* the anchor element e is <a href="H">T</a> with H and T free of raw markup
\* and reading as the href and the text of ins
AnchorEscaped(e, ins) ==
  LET hrefEnd == IndexOfChar(e, "\"", 9)
  IN  /\ MatchesAt(e, 0, <<"<","a"," ","h","r","e","f","=","\"">>, FALSE)
      /\ hrefEnd # -1
      /\ CharAt(e, hrefEnd + 1) = ">"
      /\ NoRawMarkup(Substring(e, 9, hrefEnd))
      /\ NoRawMarkup(Substring(e, hrefEnd + 2, Len(e) - 4))
      /\ DecodeEntities(Substring(e, 9, hrefEnd)) = ins.href
      /\ DecodeEntities(Substring(e, hrefEnd + 2, Len(e) - 4)) = ins.text

\* C27: every anchor element applyLinkInsertions writes has its href value
\* and its link text entity-escaped: neither holds a raw < > " ' or an
\* ampersand that is not a character reference, so neither can end the
\* attribute or open a tag, and both read back as the insertion's href and
\* text.
AnchorsEscaped ==
  pc = "done" /\ run = 1 /\ InsertionsDisjoint
    => LET written == ElementMatches(result.html, 0, <<"a">>)
       IN  /\ Len(written) = Len(insertions)
           /\ \A k \in 1..Len(written) :
                AnchorEscaped(Substring(result.html, written[k].start, written[k].end),
                              InsertionAt(k))

\* insertions with every special character in href or text were written
SpecialCharactersWritten ==
  /\ pc = "done"
  /\ run = 1
  /\ result.linksInserted = 3
  /\ \E i, j, k \in 1..Len(insertions) :
       /\ insertions[i].text = <<"R","&","D">>
       /\ \E n \in 1..Len(insertions[j].href) : insertions[j].href[n] = "\""
       /\ \E n \in 1..Len(insertions[k].href) : insertions[k].href[n] = "'"

(***************************************************************************)
(* The placement filter (checked under SpecFilter).                        *)
(***************************************************************************)
\* paragraph k of the input is one the placement policy rules out
RuledOut(k) ==
  \/ ParagraphWords(paragraphs[k]) < config.placementPolicy.minParagraphWords
  \/ /\ config.placementPolicy.skipFirstParagraph
     /\ Len(paragraphs) > 1
     /\ k = 1

\* C28: no insertion lies in a paragraph with fewer words (tags stripped)
\* than minParagraphWords, nor, when skipFirstParagraph is set and there is
\* more than one paragraph, in the first paragraph; every other paragraph is
\* in the eligible list.
FilterRespected ==
  /\ \A k \in 1..Len(paragraphs) : RuledOut(k) => LinksIn(paragraphs[k]) = {}
  /\ pc \in {"place", "apply"}
       => \A k \in 1..Len(paragraphs) :
            paragraphs[k] \in Range(eligible) <=> ~RuledOut(k)

(***************************************************************************)
(* Unresolvable parents (checked under SpecOrphans).                       *)
(***************************************************************************)
\* an upper bound on the steps the call has left
StepsLeft ==
  LET entities == Len(store.categories) + Len(store.subcategories)
  IN  IF pc = "start" THEN entities + 5
      ELSE IF pc = "resolve" THEN entities + 4
      ELSE IF pc = "extract" THEN entities + 3
      ELSE IF pc = "place" THEN (Len(targets) + 1 - targetIdx) + 2
      ELSE IF pc = "apply" THEN 1
      ELSE 0

\* C29: on a forest with parent ids that do not resolve, every call returns:
\* each step is one of the call's and lowers a bound on the steps left, down
\* to the return; the walks end at the unresolvable id without an error:
\* with the hierarchy excluded no ancestor or descendant in the store is a
\* target, and every target's URL is made of the slugs of the part of its
\* chain that is in the store.
WalksEndAtUnresolvedParent ==
  /\ [](StepsLeft >= 0 /\ (StepsLeft = 0 <=> pc = "done"))
  /\ [][StepsLeft' < StepsLeft]_vars
  /\ [](Resolved =>
          /\ \A t \in Range(targets) : t.url = UrlByChain(t.id)
          /\ config.relationPolicy.excludeHierarchyByDefault
               => \A t \in Range(targets) :
                    t.id \notin AncestorsByParent(context.id)
                                \cup DescendantsByParent(context.id))

\* the call for a page whose grandparent is not in the store returned with
\* links, the page's resolvable parent and its own orphan branch left out
OrphanPageReturned ==
  /\ pc = "done"
  /\ context.id = "free-crm-for-agencies"
  /\ config.relationPolicy.excludeHierarchyByDefault
  /\ result.linksInserted > 0
  /\ \E t \in Range(targets) : t.id = "free-crm-trial"

(***************************************************************************)
(* i18n: getLocalizedField.  A value is a record: [plain |-> text] for a   *)
(* string, [array |-> items] for an array, a record of its keys for an     *)
(* object (keyed by locale when localized), Undefined for undefined.       *)
(***************************************************************************)
Undefined == [undefined |-> TRUE]

\* a getLocalizedField that falls back to the default locale in either mode
getLocalizedFieldAlwaysFallback(entity, fieldName, locale, strictMode) ==
  IF fieldName \notin DOMAIN entity THEN Undefined
  ELSE LET field == entity[fieldName]
       IN  IF isLocalizedContent(field)
           THEN LET localized == IF locale \in DOMAIN field THEN field[locale]
                                 ELSE Undefined
                IN  IF localized = Undefined
                    THEN IF defaultLocale \in DOMAIN field THEN field[defaultLocale]
                         ELSE Undefined
                    ELSE localized
           ELSE field

getLocalizedField(entity, fieldName, locale, strictMode) ==
  IF fieldName \notin DOMAIN entity THEN Undefined
  ELSE LET field == entity[fieldName]
       IN  IF isLocalizedContent(field)
           THEN LET localized == IF locale \in DOMAIN field THEN field[locale]
                                 ELSE Undefined
                IN  IF localized = Undefined /\ ~strictMode
                    THEN IF defaultLocale \in DOMAIN field THEN field[defaultLocale]
                         ELSE Undefined
                    ELSE localized
           ELSE field

\* one call: strictMode is true when the caller passes three arguments
GetLocalizedField ==
  /\ lookup.pc = "call"
  /\ LET args       == lookup.args
         strictMode == IF "strictMode" \in DOMAIN args THEN args.strictMode ELSE TRUE
     IN  lookup' = [lookup EXCEPT
                      !.pc = "returned",
                      !.value = getLocalizedField(args.entity, args.fieldName,
                                                  args.locale, strictMode)]
  /\ UNCHANGED << store, html, context, config, pc, totalWords, maxLinks, targets,
                  paragraphs, eligible, insertions, usedAnchors, linksPerParagraph,
                  targetIdx, result, run, firstRun, calls >>

LocalizedNext == GetLocalizedField

\* ---- lookup inputs: fields that are one value for all locales, fields
\* keyed by locale with every locale, one locale, or a locale set to
\* undefined; entities without the field; both locales; strictMode passed
\* or left out
T_SimpleTitle == <<"S","i","m","p","l","e"," ","T","i","t","l","e">>

T_EnglishTitle == <<"E","n","g","l","i","s","h"," ","T","i","t","l","e">>

T_FinnishTitle == <<"F","i","n","n","i","s","h"," ","T","i","t","l","e">>

\* a ContentSection
Section(text) == [overview |-> <<text>>]

NonLocalizedValues ==
  { Plain(T_SimpleTitle), Plain(<<>>), [array |-> <<T_SimpleTitle>>],
    Section(T_SimpleTitle), <<>> }

LocalizedValues ==
  { [en |-> Plain(T_EnglishTitle), fi |-> Plain(T_FinnishTitle)],
    [en |-> Plain(T_EnglishTitle)],
    [fi |-> Plain(T_FinnishTitle)],
    [en |-> Plain(T_EnglishTitle), fi |-> Undefined],
    [en |-> Undefined, fi |-> Plain(T_FinnishTitle)],
    [en |-> Section(T_EnglishTitle), fi |-> Section(T_FinnishTitle)],
    [en |-> Section(T_EnglishTitle)] }

LookupEntities ==
  { [id |-> "test"] }
  \cup { [id |-> "test", title |-> value] :
           value \in NonLocalizedValues \cup LocalizedValues }

LookupArguments ==
  { [entity |-> entity, fieldName |-> fieldName, locale |-> locale] :
      entity \in LookupEntities, fieldName \in {"title", "content"},
      locale \in Range(supportedLocales) }
  \cup { [entity |-> entity, fieldName |-> fieldName, locale |-> locale,
          strictMode |-> strictMode] :
           entity \in LookupEntities, fieldName \in {"title", "content"},
           locale \in Range(supportedLocales), strictMode \in BOOLEAN }

InitLocalized ==
  \E args \in LookupArguments :
    /\ lookup = [pc |-> "call", args |-> args, value |-> Undefined]
    /\ store = FlatStore
    /\ html = <<>>
    /\ context = PageById(FlatStore, "crm-software")
    /\ config = defaultConfig
    /\ pc = "done"
    /\ totalWords = 0
    /\ maxLinks = 0
    /\ targets = <<>>
    /\ paragraphs = <<>>
    /\ eligible = <<>>
    /\ insertions = <<>>
    /\ usedAnchors = {}
    /\ linksPerParagraph = <<>>
    /\ targetIdx = 1
    /\ result = Unchanged(<<>>)
    /\ run = 1
    /\ firstRun = <<>>
    /\ calls = <<>>

SpecLocalized == InitLocalized /\ [][LocalizedNext]_vars

\* the field holds a value for the locale
HasLocale(field, locale) == locale \in DOMAIN field /\ field[locale] # Undefined

\* C30: getLocalizedField returns a field that is not localized unchanged,
\* whatever the locale; of a localized field it returns the value of the
\* locale asked for, and when the field has none for it, undefined in strict
\* mode (also when strictMode is left out) and the value of the default
\* locale otherwise.
LocalizedFieldReturned ==
  lookup.pc = "returned" /\ lookup.args.fieldName \in DOMAIN lookup.args.entity
    => LET args   == lookup.args
           field  == args.entity[args.fieldName]
           strict == "strictMode" \in DOMAIN args => args.strictMode
       IN  /\ field \in NonLocalizedValues => lookup.value = field
           /\ field \in LocalizedValues =>
                IF HasLocale(field, args.locale)
                THEN lookup.value = field[args.locale]
                ELSE IF strict THEN lookup.value = Undefined
                ELSE IF HasLocale(field, defaultLocale)
                     THEN lookup.value = field[defaultLocale]
                     ELSE lookup.value = Undefined

\* the Finnish title of an entity titled in English only was asked for in
\* non-strict mode, and the English title came back
FellBackToDefaultLocale ==
  /\ lookup.pc = "returned"
  /\ lookup.args = [entity |-> [id |-> "test", title |-> [en |-> Plain(T_EnglishTitle)]],
                    fieldName |-> "title", locale |-> "fi", strictMode |-> FALSE]
  /\ lookup.value = Plain(T_EnglishTitle)

====
